---- MODULE Spec2Model ----
(***************************************************************************)
(* The ask-a-question pipeline of src-tauri: the ask_question command,     *)
(* ask_question_rag, the four streaming chat clients and the cancellation  *)
(* registry (ai.rs, commands.rs).                                          *)
(*                                                                         *)
(* Bytes on the wire are modelled as symbols: a symbol stands for a run of *)
(* bytes that the client treats as a unit (the newline, a carriage return, *)
(* the literal `data: `, the literal `[DONE]`, one JSON value, a run of    *)
(* bytes that is not JSON).  Texts carried by JSON values are sequences of *)
(* characters.  The event sink (AppHandle::emit) accepts every event.      *)
(***************************************************************************)
EXTENDS Integers, Sequences, FiniteSets, TLC

\* Lines a provider sends on one response.
MaxLines == 2

Requests == {"r1"}

Providers == {"openai", "anthropic", "gemini", "ollama"}

--------------------------------------------------------------------------
\* Option<T>

None == [some |-> FALSE, v |-> <<>>]

Some(x) == [some |-> TRUE, v |-> x]

--------------------------------------------------------------------------
\* Wire symbols

Sym(k, t) == [k |-> k, t |-> t]

NL == Sym("nl", <<>>)

CR == Sym("cr", <<>>)

DataPrefix == Sym("data", <<>>)

DoneLiteral == Sym("done", <<>>)

NotJson == Sym("bad", <<>>)

\* {"choices":[{"delta":{"content": t}}]}
OpenAiDelta(t) == Sym("oa_delta", t)

\* {"choices":[{"delta":{"role":"assistant"}}]}
OpenAiRole == Sym("oa_role", <<>>)

\* {"type":"content_block_delta","delta":{"text": t}}
ContentBlockDelta(t) == Sym("cbd", t)

\* {"type":"content_block_delta","delta":{"partial_json":".."}}
ContentBlockNoText == Sym("cbd_notext", <<>>)

\* {"type":"message_stop"}
MessageStop == Sym("stop", <<>>)

\* {"type":"ping"}
Ping == Sym("ping", <<>>)

\* {"candidates":[{"content":{"parts":[{"text": t}]}}]}
Candidate(t) == Sym("cand", t)

\* {"candidates":[{"finishReason":"STOP"}]}
CandidateNoText == Sym("cand_notext", <<>>)

\* {"message":{"content": t},"done": d}
OllamaMessage(t, d) == Sym(IF d THEN "om_done" ELSE "om", t)

\* {"done": true}
OllamaDone == Sym("o_done", <<>>)

\* {"model":"llama3"}
OllamaNoContent == Sym("o_none", <<>>)

JsonKinds == {"oa_delta", "oa_role", "cbd", "cbd_notext", "stop", "ping",
              "cand", "cand_notext", "om", "om_done", "o_done", "o_none"}

Whitespace == {"nl", "cr"}

--------------------------------------------------------------------------
\* Sequences

Last(s) == s[Len(s)]

Front(s) == SubSeq(s, 1, Len(s) - 1)

IsPrefixOf(p, s) == Len(p) <= Len(s) /\ SubSeq(s, 1, Len(p)) = p

RECURSIVE SelectIdx(_, _, _)
\* the least index i >= from with s[i].k = kind, 0 when there is none
SelectIdx(s, kind, from) ==
    IF from > Len(s) THEN 0
    ELSE IF s[from].k = kind THEN from
    ELSE SelectIdx(s, kind, from + 1)

RECURSIVE SelectLastIdx(_, _, _)
SelectLastIdx(s, kind, from) ==
    IF from < 1 THEN 0
    ELSE IF s[from].k = kind THEN from
    ELSE SelectLastIdx(s, kind, from - 1)

\* buffer.rfind('\n') in the place of buffer.find('\n')
FindLastNewline(buffer) == SelectLastIdx(buffer, "nl", Len(buffer))

\* buffer.find('\n')
FindNewline(buffer) == SelectIdx(buffer, "nl", 1)

RECURSIVE TrimStart(_)
TrimStart(s) ==
    IF s # <<>> /\ Head(s).k \in Whitespace THEN TrimStart(Tail(s)) ELSE s

RECURSIVE TrimEnd(_)
TrimEnd(s) ==
    IF s # <<>> /\ Last(s).k \in Whitespace THEN TrimEnd(Front(s)) ELSE s

\* str::trim
Trim(s) == TrimEnd(TrimStart(s))

\* line.strip_prefix("data: ")
StripDataPrefix(line) ==
    IF line # <<>> /\ Head(line).k = "data" THEN Some(Tail(line)) ELSE None

\* the bytes of an object up to the opening quote of its text field; kind is
\* the kind of the object
JsonOpen(kind) == Sym("open", <<kind>>)

\* the bytes from the closing quote of the text field to the end of the object
JsonClose == Sym("close", <<>>)

\* the text of decoded characters: a two-byte letter or U+FFFD
JsonText(chars) ==
    [i \in 1..Len(chars) |-> IF chars[i].k = "u_char" THEN "e-acute" ELSE "U+FFFD"]

\* an object written out with the characters of its text field
IsSpelledObject(data) ==
    /\ Len(data) >= 2
    /\ data[1].k = "open" /\ data[Len(data)].k = "close"
    /\ \A i \in 2..(Len(data) - 1) : data[i].k \in {"u_char", "u_fffd"}

\* serde_json::from_str::<Value>(data): one JSON value and nothing else
FromStr(data) ==
    IF Len(data) = 1 /\ data[1].k \in JsonKinds THEN Some(data[1])
    ELSE IF IsSpelledObject(data)
    THEN Some(Sym(data[1].t[1], JsonText(SubSeq(data, 2, Len(data) - 1))))
    ELSE None

\* the two bytes of a two-byte UTF-8 character
Utf8Lead == Sym("u_lead", <<>>)

Utf8Cont == Sym("u_cont", <<>>)

RECURSIVE Utf8Lossy(_)
\* String::from_utf8_lossy(&chunk): a lead byte followed by its continuation
\* byte in the same chunk is one character, a lone half is U+FFFD
Utf8Lossy(chunk) ==
    IF chunk = <<>> THEN <<>>
    ELSE IF Head(chunk).k = "u_lead" /\ Len(chunk) >= 2 /\ chunk[2].k = "u_cont"
    THEN <<Sym("u_char", <<>>)>> \o Utf8Lossy(Tail(Tail(chunk)))
    ELSE IF Head(chunk).k \in {"u_lead", "u_cont"}
    THEN <<Sym("u_fffd", <<>>)>> \o Utf8Lossy(Tail(chunk))
    ELSE <<Head(chunk)>> \o Utf8Lossy(Tail(chunk))

\* text.strip_prefix(&emitted_text)
StripPrefix(text, prefix) ==
    IF IsPrefixOf(prefix, text)
    THEN Some(SubSeq(text, Len(prefix) + 1, Len(text)))
    ELSE None

--------------------------------------------------------------------------
\* Settings and provider selection (models.rs, commands.rs)

\* An Option<String> setting is "none" (None), "blank" (Some of a string that
\* trims to nothing) or "set" (Some of a value).

DefaultSettings ==
    [openai_api_key |-> "none", anthropic_api_key |-> "none",
     gemini_api_key |-> "none", ollama_base_url |-> "none",
     preferred_provider |-> "none"]

ConfiguredSettings ==
    [openai_api_key |-> "set", anthropic_api_key |-> "set",
     gemini_api_key |-> "set", ollama_base_url |-> "set",
     preferred_provider |-> "none"]

\* the settings snapshots the store holds in this model
SettingsChoices == {DefaultSettings, ConfiguredSettings}

has_non_empty(value) == value = "set"

provider_is_configured(s, p) ==
    CASE p = "openai" -> has_non_empty(s.openai_api_key)
      [] p = "anthropic" -> has_non_empty(s.anthropic_api_key)
      [] p = "gemini" -> has_non_empty(s.gemini_api_key)
      [] p = "ollama" -> has_non_empty(s.ollama_base_url)

Ok(x) == [ok |-> TRUE, v |-> x]

Err(e) == [ok |-> FALSE, v |-> e]

\* the error for an explicit provider that is not configured
NotConfigured(p) ==
    CASE p = "openai" -> "OpenAI is selected but no OpenAI API key is configured."
      [] p = "anthropic" -> "Anthropic is selected but no Anthropic API key is configured."
      [] p = "gemini" -> "Gemini is selected but no Gemini API key is configured."
      [] p = "ollama" -> "Ollama is selected but no Ollama base URL is configured."

\* the candidates of the precedence loop, in order
Precedence == <<"openai", "anthropic", "gemini", "ollama">>

RECURSIVE FirstConfigured(_, _)
FirstConfigured(s, i) ==
    IF i > Len(Precedence) THEN Err("no_provider")
    ELSE IF provider_is_configured(s, Precedence[i]) THEN Ok(Precedence[i])
    ELSE FirstConfigured(s, i + 1)

\* a resolve_provider that stops at a preferred provider it cannot use
resolve_provider_preferred_only(s, provider) ==
    IF provider # "none"
    THEN IF provider_is_configured(s, provider)
         THEN Ok(provider) ELSE Err(NotConfigured(provider))
    ELSE IF s.preferred_provider = "none" THEN FirstConfigured(s, 1)
    ELSE IF s.preferred_provider \in Providers
            /\ provider_is_configured(s, s.preferred_provider)
    THEN Ok(s.preferred_provider)
    ELSE Err("unconfigured")

\* a resolve_provider that goes on to the preferred provider and the
\* precedence order when the explicit provider is not configured
resolve_provider_fall_back(s, provider) ==
    IF provider # "none" /\ provider_is_configured(s, provider)
    THEN Ok(provider)
    ELSE IF s.preferred_provider \in Providers
            /\ provider_is_configured(s, s.preferred_provider)
    THEN Ok(s.preferred_provider)
    ELSE FirstConfigured(s, 1)

\* provider: "none" or the explicit provider of the request
resolve_provider(s, provider) ==
    IF provider # "none"
    THEN IF provider_is_configured(s, provider)
         THEN Ok(provider) ELSE Err(NotConfigured(provider))
    ELSE IF s.preferred_provider \in Providers
            /\ provider_is_configured(s, s.preferred_provider)
    THEN Ok(s.preferred_provider)
    ELSE FirstConfigured(s, 1)

\* the key check that opens each stream_* function
stream_key_present(s, p) ==
    CASE p = "openai" -> s.openai_api_key # "none"
      [] p = "anthropic" -> s.anthropic_api_key # "none"
      [] p = "gemini" -> s.gemini_api_key # "none"
      [] p = "ollama" -> TRUE

--------------------------------------------------------------------------
\* Events (ai.rs)

Event(type, r, content, cancelled, message) ==
    [type |-> type, request_id |-> r, content |-> content,
     cancelled |-> cancelled, message |-> message]

AiResponseSourcesEvent(r) == Event("sources", r, <<>>, FALSE, "")

AiResponseChunkEvent(r, content) == Event("chunk", r, content, FALSE, "")

AiResponseDoneEvent(r, cancelled) == Event("done", r, <<>>, cancelled, "")

error_event(r, message) == Event("error", r, <<>>, FALSE, message)

--------------------------------------------------------------------------
\* The body of the line loop of each stream client: what one drained line
\* makes the client do.  chunks: the contents of the chunk-events emitted,
\* done: the terminal signal was met, emitted: emitted_text afterwards.

LineResult(chunks, done, emitted) ==
    [chunks |-> chunks, done |-> done, emitted |-> emitted]

\* a client that takes the payload of a line with or without `data: `
stream_openai_line_lax(raw, emitted) ==
    LET line == Trim(raw)
        data == IF StripDataPrefix(line).some THEN StripDataPrefix(line).v ELSE line
        parsed == FromStr(data)
    IN  IF data = <<DoneLiteral>> THEN LineResult(<<>>, TRUE, emitted)
        ELSE IF parsed.some /\ parsed.v.k = "oa_delta"
        THEN LineResult(<<parsed.v.t>>, FALSE, emitted)
        ELSE LineResult(<<>>, FALSE, emitted)

stream_openai_line(raw, emitted) ==
    LET data == StripDataPrefix(Trim(raw))
        parsed == FromStr(data.v)
    IN  IF ~data.some THEN LineResult(<<>>, FALSE, emitted)
        ELSE IF data.v = <<DoneLiteral>> THEN LineResult(<<>>, TRUE, emitted)
        ELSE IF parsed.some /\ parsed.v.k = "oa_delta"
        THEN LineResult(<<parsed.v.t>>, FALSE, emitted)
        ELSE LineResult(<<>>, FALSE, emitted)

stream_anthropic_line(raw, emitted) ==
    LET data == StripDataPrefix(Trim(raw))
        parsed == FromStr(data.v)
    IN  IF ~data.some \/ ~parsed.some THEN LineResult(<<>>, FALSE, emitted)
        ELSE IF parsed.v.k = "cbd" THEN LineResult(<<parsed.v.t>>, FALSE, emitted)
        ELSE IF parsed.v.k = "stop" THEN LineResult(<<>>, TRUE, emitted)
        ELSE LineResult(<<>>, FALSE, emitted)

\* a client that relays the cumulative text as it comes
gemini_delta_whole(text, emitted) == text

\* the delta of a cumulative text against the text emitted so far
gemini_delta(text, emitted) ==
    LET suffix == StripPrefix(text, emitted)
    IN  IF suffix.some THEN suffix.v ELSE text

stream_gemini_line(raw, emitted) ==
    LET data == StripDataPrefix(Trim(raw))
        parsed == FromStr(data.v)
        delta == gemini_delta(parsed.v.t, emitted)
    IN  IF ~data.some THEN LineResult(<<>>, FALSE, emitted)
        ELSE IF data.v = <<DoneLiteral>> THEN LineResult(<<>>, TRUE, emitted)
        ELSE IF parsed.some /\ parsed.v.k = "cand" /\ delta # <<>>
        THEN LineResult(<<delta>>, FALSE, emitted \o delta)
        ELSE LineResult(<<>>, FALSE, emitted)

\* a client that looks at the done field before the content
stream_ollama_line_done_first(raw, emitted) ==
    LET line == Trim(raw)
        parsed == FromStr(line)
    IN  IF line = <<>> \/ ~parsed.some THEN LineResult(<<>>, FALSE, emitted)
        ELSE IF parsed.v.k \in {"om_done", "o_done"} THEN LineResult(<<>>, TRUE, emitted)
        ELSE LineResult(IF parsed.v.k = "om" THEN <<parsed.v.t>> ELSE <<>>, FALSE, emitted)

stream_ollama_line(raw, emitted) ==
    LET line == Trim(raw)
        parsed == FromStr(line)
    IN  IF line = <<>> \/ ~parsed.some THEN LineResult(<<>>, FALSE, emitted)
        ELSE LineResult(
                IF parsed.v.k \in {"om", "om_done"} THEN <<parsed.v.t>> ELSE <<>>,
                parsed.v.k \in {"om_done", "o_done"},
                emitted)

\* stream_chat_response: dispatch by provider tag
stream_line(p, raw, emitted) ==
    CASE p = "openai" -> stream_openai_line(raw, emitted)
      [] p = "anthropic" -> stream_anthropic_line(raw, emitted)
      [] p = "gemini" -> stream_gemini_line(raw, emitted)
      [] p = "ollama" -> stream_ollama_line(raw, emitted)

--------------------------------------------------------------------------
\* What a provider may put on the wire: the lines of its protocol (without
\* the newline), well-formed and not.

\* the cumulative texts of a Gemini response
CumulativeTexts == {<<"x">>, <<"x", "y">>, <<"y">>}

WireLines(p) ==
    CASE p = "openai" ->
            {<<DataPrefix, OpenAiDelta(<<"x">>)>>,
             <<DataPrefix, OpenAiDelta(<<"y">>), CR>>,
             <<DataPrefix, DoneLiteral>>,
             <<DataPrefix, NotJson>>,
             <<DataPrefix, OpenAiRole>>,
             <<OpenAiDelta(<<"x">>)>>}
      [] p = "anthropic" ->
            {<<DataPrefix, ContentBlockDelta(<<"x">>)>>,
             <<DataPrefix, ContentBlockDelta(<<"y">>), CR>>,
             <<DataPrefix, MessageStop>>,
             <<DataPrefix, NotJson>>,
             <<DataPrefix, ContentBlockNoText>>,
             <<DataPrefix, Ping>>,
             <<ContentBlockDelta(<<"x">>)>>}
      [] p = "gemini" ->
            {<<DataPrefix, Candidate(t)>> : t \in CumulativeTexts}
            \cup {<<DataPrefix, DoneLiteral, CR>>,
                  <<DataPrefix, NotJson>>,
                  <<DataPrefix, CandidateNoText>>,
                  <<Candidate(<<"x">>)>>}
      [] p = "ollama" ->
            {<<OllamaMessage(<<"x">>, FALSE)>>,
             <<OllamaMessage(<<"y">>, FALSE), CR>>,
             <<OllamaMessage(<<"x">>, TRUE)>>,
             <<OllamaDone>>,
             <<NotJson>>,
             <<OllamaNoContent>>,
             <<>>}

\* what a provider may have sent of a further line when the connection closes
WireFragments(p) ==
    CASE p = "openai" -> {<<>>, <<DataPrefix, OpenAiDelta(<<"x">>)>>}
      [] p = "anthropic" -> {<<>>, <<DataPrefix, ContentBlockDelta(<<"x">>)>>}
      [] p = "gemini" -> {<<>>, <<DataPrefix, Candidate(<<"x">>)>>}
      [] p = "ollama" -> {<<>>, <<OllamaMessage(<<"x">>, FALSE)>>}

--------------------------------------------------------------------------
\* The retrieval engine (ai.rs): text is a sequence of characters, a score is
\* a number of hundredths (0.35 is 35), an f32 is an integer or NaN.

MaxChunks == 2

CandidateLimit == 20

AgreementBonus == 35

IndexedScore == 50

FallbackScore == 30

FallbackTerms == 6

MinTermLen == 2

LowerCase == <<"a", "b", "c", "d", "e", "f", "g", "h", "i", "j", "k", "l", "m", "n", "o", "p", "q", "r", "s", "t", "u", "v", "w", "x", "y", "z">>

UpperCase == <<"A", "B", "C", "D", "E", "F", "G", "H", "I", "J", "K", "L", "M", "N", "O", "P", "Q", "R", "S", "T", "U", "V", "W", "X", "Y", "Z">>

Digits == {"0", "1", "2", "3", "4", "5", "6", "7", "8", "9"}

Range(s) == {s[i] : i \in 1..Len(s)}

\* the lowercase letter of each uppercase letter
LowerOf ==
    [c \in Range(UpperCase) |-> LowerCase[CHOOSE i \in 1..Len(UpperCase) : UpperCase[i] = c]]

\* char::to_lowercase
to_lowercase(c) == IF c \in DOMAIN LowerOf THEN LowerOf[c] ELSE c

\* a letter outside ASCII, which UTF-8 encodes in two bytes
TwoByteLetters == {"e-acute"}

Alphanumerics == Range(LowerCase) \cup Range(UpperCase) \cup Digits \cup TwoByteLetters

\* char::is_alphanumeric
is_alphanumeric(c) == c \in Alphanumerics

is_whitespace(c) == c = " "

MapSeq(s, Op(_)) == [i \in 1..Len(s) |-> Op(s[i])]

Take(s, n) == SubSeq(s, 1, IF n < Len(s) THEN n ELSE Len(s))

\* the least index i >= from with Test(s[i]), 0 when there is none
RECURSIVE FindChar(_, _, _)
FindChar(s, Test(_), from) ==
    IF from > Len(s) THEN 0
    ELSE IF Test(s[from]) THEN from
    ELSE FindChar(s, Test, from + 1)

\* str::split_whitespace
RECURSIVE split_whitespace(_)
split_whitespace(s) ==
    LET start == FindChar(s, LAMBDA c : ~is_whitespace(c), 1)
    IN  IF start = 0 THEN <<>>
        ELSE LET rest == SubSeq(s, start, Len(s))
                 stop == FindChar(rest, is_whitespace, 1)
             IN  IF stop = 0 THEN <<rest>>
                 ELSE <<SubSeq(rest, 1, stop - 1)>>
                        \o split_whitespace(SubSeq(rest, stop, Len(rest)))

\* s contains t as a substring
Contains(s, t) ==
    \E i \in 1..(Len(s) - Len(t) + 1) : SubSeq(s, i, i + Len(t) - 1) = t

STOP_WORDS ==
    { <<"a">>, <<"a", "n">>, <<"a", "n", "d">>, <<"a", "r", "e">>,
      <<"a", "s">>, <<"a", "t">>, <<"b", "e">>, <<"b", "y">>,
      <<"c", "a", "n">>, <<"d", "o">>, <<"d", "o", "e", "s">>,
      <<"f", "o", "r">>, <<"f", "r", "o", "m">>, <<"h", "a", "s">>,
      <<"h", "a", "v", "e">>, <<"h", "o", "w">>, <<"i">>, <<"i", "n">>,
      <<"i", "s">>, <<"i", "t">>, <<"i", "t", "s">>, <<"m", "y">>,
      <<"n", "o", "t">>, <<"o", "f">>, <<"o", "n">>, <<"o", "r">>,
      <<"o", "u", "r">>, <<"s", "h", "o", "u", "l", "d">>, <<"s", "o">>,
      <<"t", "h", "a", "t">>, <<"t", "h", "e">>, <<"t", "h", "e", "i", "r">>,
      <<"t", "h", "e", "m">>, <<"t", "h", "e", "n">>,
      <<"t", "h", "e", "r", "e">>, <<"t", "h", "e", "s", "e">>,
      <<"t", "h", "e", "y">>, <<"t", "h", "i", "s">>, <<"t", "o">>,
      <<"w", "a", "s">>, <<"w", "e">>, <<"w", "h", "a", "t">>,
      <<"w", "h", "e", "n">>, <<"w", "h", "e", "r", "e">>,
      <<"w", "h", "i", "c", "h">>, <<"w", "h", "o">>, <<"w", "h", "y">>,
      <<"w", "i", "l", "l">>, <<"w", "i", "t", "h">>,
      <<"w", "o", "u", "l", "d">>, <<"y", "o", "u">>,
      <<"y", "o", "u", "r">> }

\* str::len, the length in bytes
RECURSIVE str_len(_)
str_len(w) ==
    IF w = <<>> THEN 0
    ELSE (IF Head(w) \in TwoByteLetters THEN 2 ELSE 1) + str_len(Tail(w))

\* the terms of the query, lowercased and stripped of non-alphanumerics, of
\* MinTermLen bytes or more
cleaned_terms(query) ==
    SelectSeq(MapSeq(split_whitespace(query),
                     LAMBDA w : SelectSeq(MapSeq(w, to_lowercase), is_alphanumeric)),
              LAMBDA w : str_len(w) >= MinTermLen)

\* an extract_keywords without the fallback to the cleaned terms
extract_keywords_filtered(query) ==
    SelectSeq(cleaned_terms(query), LAMBDA w : w \notin STOP_WORDS)

extract_keywords(query) ==
    LET terms == cleaned_terms(query)
        keywords == SelectSeq(terms, LAMBDA w : w \notin STOP_WORDS)
    IN  IF keywords = <<>> THEN Take(terms, FallbackTerms)
        ELSE keywords

\* ---- floating point: a value is a number or NaN

F(x) == [nan |-> FALSE, v |-> x]

NaN == [nan |-> TRUE, v |-> 0]

Floats(values) == [i \in 1..Len(values) |-> F(values[i])]

IsNaN(x) == x.nan

Mul(x, y) == IF IsNaN(x) \/ IsNaN(y) THEN NaN ELSE F(x.v * y.v)

Plus(x, y) == IF IsNaN(x) \/ IsNaN(y) THEN NaN ELSE F(x.v + y.v)

\* f64::sqrt on the squares the vectors of the model produce
Sqrt(x) ==
    IF IsNaN(x) THEN NaN
    ELSE F(CHOOSE k \in 0..x.v : k * k <= x.v /\ (k + 1) * (k + 1) > x.v)

\* the quotient in hundredths; the denominator is not zero
Div(x, y) == IF IsNaN(x) \/ IsNaN(y) THEN NaN ELSE F((100 * x.v) \div y.v)

is_finite(x) == ~IsNaN(x)

\* x <= 0.0, false on NaN
LeZero(x) == ~IsNaN(x) /\ x.v <= 0

\* x == 0.0, false on NaN
IsZero(x) == ~IsNaN(x) /\ x.v = 0

RECURSIVE SumProducts(_, _)
SumProducts(a, b) ==
    IF a = <<>> THEN F(0)
    ELSE Plus(Mul(Head(a), Head(b)), SumProducts(Tail(a), Tail(b)))

cosine_similarity(a, b) ==
    IF Len(a) # Len(b) \/ a = <<>> THEN None
    ELSE LET dot == SumProducts(a, b)
             mag_a == SumProducts(a, a)
             mag_b == SumProducts(b, b)
             denom == Mul(Sqrt(mag_a), Sqrt(mag_b))
         IN  IF IsZero(denom) THEN None
             ELSE Some(Div(dot, denom))

\* a BLOB: whole little-endian f32 values and 0..3 bytes more
Blob(values, rest) == [values |-> values, rest |-> rest]

decode_embedding_blob(blob) == blob.values

\* a chunk with no row in chunk_embeddings
NoBlob == [some |-> FALSE, v |-> Blob(<<>>, 0)]

\* ---- the database

ChunkIds == 1..MaxChunks

ScoredChunk(id, score) == [id |-> id, score |-> score]

Text_runbook == <<"d", "e", "p", "l", "o", "y", "m", "e", "n", "t", " ", "r", "u", "n", "b", "o", "o", "k", " ", "c", "h", "e", "c", "k", "l", "i", "s", "t">>

Text_plural == <<"D", "e", "p", "l", "o", "y", "m", "e", "n", "t", "s">>

Text_notes == <<"r", "e", "l", "e", "a", "s", "e", " ", "n", "o", "t", "e", "s">>

Query_scenario == <<"d", "e", "p", "l", "o", "y", "m", "e", "n", "t", " ", "c", "h", "e", "c", "k", "l", "i", "s", "t">>

Query_stopwords == <<"W", "h", "a", "t", " ", "i", "s", " ", "t", "h", "i", "s", " ", "a", "b", "o", "u", "t", "?">>

Query_nothing == <<" ", "a", " ", " ", "?", " ">>

\* the rows a database is made of: a row of chunks with its row of
\* chunk_embeddings
ChunkKinds ==
    [ runbook_vec |-> [content_text |-> Text_runbook,
                       embedding |-> Some(Blob(Floats(<<3, 4>>), 0))],
      runbook_1d  |-> [content_text |-> Text_runbook,
                       embedding |-> Some(Blob(Floats(<<42>>), 0))],
      plural_zero |-> [content_text |-> Text_plural,
                       embedding |-> Some(Blob(Floats(<<0, 0>>), 0))],
      notes_vec   |-> [content_text |-> Text_notes,
                       embedding |-> Some(Blob(Floats(<<-15, 20>>), 2))],
      notes_neg   |-> [content_text |-> Text_notes,
                       embedding |-> Some(Blob(Floats(<<-3, -4>>), 0))],
      plural_nan  |-> [content_text |-> Text_plural,
                       embedding |-> Some(Blob(<<NaN, F(1)>>, 0))],
      notes_only  |-> [content_text |-> Text_notes, embedding |-> NoBlob] ]

TableSets ==
    { {"chunks"}, {"chunks", "chunks_fts"}, {"chunks", "chunk_embeddings"},
      {"chunks", "chunks_fts", "chunk_embeddings"} }

\* a database, each row named by its kind
Databases == [tables : TableSets, chunks : [ChunkIds -> DOMAIN ChunkKinds]]

NoDatabase == [tables |-> {}, chunks |-> <<>>]

\* the tables and rows of a database
Connection(c) ==
    [tables |-> c.tables, chunks |-> [id \in DOMAIN c.chunks |-> ChunkKinds[c.chunks[id]]]]

\* the query texts, by name
Questions ==
    [ scenario |-> Query_scenario, stopwords |-> Query_stopwords, nothing |-> Query_nothing ]

QueryEmbeddings == {Floats(<<3, 4>>), Floats(<<0, 0>>), <<>>}

table_exists(db, table_name) == table_name \in db.tables

RECURSIVE Ascending(_)
Ascending(ids) ==
    IF ids = {} THEN <<>>
    ELSE LET least == CHOOSE i \in ids : \A j \in ids : i <= j
         IN  <<least>> \o Ascending(ids \ {least})

Reverse(s) == [i \in 1..Len(s) |-> s[Len(s) + 1 - i]]

\* the orders in which rows may come out of a statement without ORDER BY, out
\* of the index by rank, or out of a HashMap
RowOrders(ids) == {Ascending(ids), Reverse(Ascending(ids))}

\* ---- sort_by(|a, b| b.score.partial_cmp(&a.score)), a stable sort

\* a sort that puts the lowest score first
RECURSIVE sort_by_score_ascending(_)
sort_by_score_ascending(s) ==
    IF s = <<>> THEN <<>>
    ELSE LET rest == sort_by_score_ascending(Front(s))
             x == Last(s)
             keep == SelectSeq(rest, LAMBDA y : y.score <= x.score)
             after == SelectSeq(rest, LAMBDA y : y.score > x.score)
         IN  keep \o <<x>> \o after

RECURSIVE sort_by_score(_)
sort_by_score(s) ==
    IF s = <<>> THEN <<>>
    ELSE LET rest == sort_by_score(Front(s))
             x == Last(s)
             keep == SelectSeq(rest, LAMBDA y : y.score >= x.score)
             after == SelectSeq(rest, LAMBDA y : y.score < x.score)
         IN  keep \o <<x>> \o after

truncate(s, len) == Take(s, len)

\* ---- vector_search

\* the rows of chunk_embeddings joined with chunks, in the order rows
EmbeddingRows(db, rows) ==
    SelectSeq(rows, LAMBDA id : id \in DOMAIN db.chunks /\ db.chunks[id].embedding.some)

\* a closure that keeps every row cosine_similarity scores
ScoreRowUnfiltered(db, query_embedding, id) ==
    LET stored == decode_embedding_blob(db.chunks[id].embedding.v)
        score == cosine_similarity(query_embedding, stored)
    IN  IF ~score.some \/ IsNaN(score.v) THEN None
        ELSE Some(ScoredChunk(id, score.v.v))

\* the filter_map closure: the scored chunk of a row, or None
ScoreRow(db, query_embedding, id) ==
    LET stored == decode_embedding_blob(db.chunks[id].embedding.v)
        score == cosine_similarity(query_embedding, stored)
    IN  IF ~score.some THEN None
        ELSE IF LeZero(score.v) \/ ~is_finite(score.v) THEN None
        ELSE Some(ScoredChunk(id, score.v.v))

Scored(db, query_embedding, rows) ==
    MapSeq(SelectSeq(MapSeq(EmbeddingRows(db, rows),
                            LAMBDA id : ScoreRow(db, query_embedding, id)),
                     LAMBDA scored : scored.some),
           LAMBDA scored : scored.v)

\* a vector_search that fails when the table is missing
vector_search_strict(db, query_embedding, limit, rows, fault) ==
    IF limit = 0 \/ query_embedding = <<>> THEN Ok(<<>>)
    ELSE IF ~table_exists(db, "chunk_embeddings") THEN Err("vector_search")
    ELSE IF fault THEN Err("vector_search")
    ELSE Ok(truncate(sort_by_score(Scored(db, query_embedding, rows)), limit))

vector_search(db, query_embedding, limit, rows, fault) ==
    IF limit = 0 \/ query_embedding = <<>> THEN Ok(<<>>)
    ELSE IF ~table_exists(db, "chunk_embeddings") THEN Ok(<<>>)
    ELSE IF fault THEN Err("vector_search")
    ELSE Ok(truncate(sort_by_score(Scored(db, query_embedding, rows)), limit))

\* ---- fts_chunk_search

\* the tokens FTS5 indexes a text under: its maximal runs of alphanumerics,
\* lowercased
Tokens(text) ==
    split_whitespace(MapSeq(text, LAMBDA c : IF is_alphanumeric(c)
                                              THEN to_lowercase(c) ELSE " "))

\* chunks_fts MATCH '"k1" OR "k2" ...'
Fts5Match(text, keywords) ==
    LET tokens == Range(Tokens(text))
    IN  \E i \in 1..Len(keywords) : keywords[i] \in tokens

\* content_text LIKE '%k1%' OR content_text LIKE '%k2%' ...
LikeMatch(text, keywords) ==
    LET lowered == MapSeq(text, to_lowercase)
    IN  \E i \in 1..Len(keywords) : Contains(lowered, keywords[i])

\* the rows of a statement, in the order rows, each with the score of its path
Hits(db, keywords, rows, has_fts, score) ==
    MapSeq(SelectSeq(rows, LAMBDA id :
                /\ id \in DOMAIN db.chunks
                /\ IF has_fts THEN Fts5Match(db.chunks[id].content_text, keywords)
                   ELSE LikeMatch(db.chunks[id].content_text, keywords)),
           LAMBDA id : ScoredChunk(id, score))

\* an fts_chunk_search that scores the LIKE path as the indexed one
fts_chunk_search_flat(db, query, limit, rows, fault) ==
    LET keywords == extract_keywords(query)
    IN  IF keywords = <<>> THEN Ok(<<>>)
        ELSE IF fault THEN Err("fts_chunk_search")
        ELSE IF table_exists(db, "chunks_fts")
        THEN Ok(Take(Hits(db, keywords, rows, TRUE, IndexedScore), limit))
        ELSE Ok(Take(Hits(db, keywords, rows, FALSE, IndexedScore), limit))

fts_chunk_search(db, query, limit, rows, fault) ==
    LET keywords == extract_keywords(query)
    IN  IF keywords = <<>> THEN Ok(<<>>)
        ELSE IF fault THEN Err("fts_chunk_search")
        ELSE IF table_exists(db, "chunks_fts")
        THEN Ok(Take(Hits(db, keywords, rows, TRUE, IndexedScore), limit))
        ELSE Ok(Take(Hits(db, keywords, rows, FALSE, FallbackScore), limit))

\* ---- hybrid_search

Max(x, y) == IF x >= y THEN x ELSE y

\* merged after the first loop: chunk id -> score
InsertAll(results) ==
    [id \in {results[i].id : i \in 1..Len(results)} |->
        (results[CHOOSE i \in 1..Len(results) :
                    /\ results[i].id = id
                    /\ \A j \in (i + 1)..Len(results) : results[j].id # id]).score]

\* a second loop that adds the FTS score of a chunk found by both searches
RECURSIVE MergeFtsSum(_, _)
MergeFtsSum(merged, fts_results) ==
    IF fts_results = <<>> THEN merged
    ELSE LET chunk == Head(fts_results)
             next == IF chunk.id \in DOMAIN merged
                     THEN [merged EXCEPT ![chunk.id] = @ + chunk.score]
                     ELSE [id \in DOMAIN merged \cup {chunk.id} |->
                              IF id = chunk.id THEN Max(chunk.score, AgreementBonus)
                              ELSE merged[id]]
         IN  MergeFtsSum(next, Tail(fts_results))

\* a second loop that leaves the score of a keyword-only chunk as it is
RECURSIVE MergeFtsNoFloor(_, _)
MergeFtsNoFloor(merged, fts_results) ==
    IF fts_results = <<>> THEN merged
    ELSE LET chunk == Head(fts_results)
             next == IF chunk.id \in DOMAIN merged
                     THEN [merged EXCEPT ![chunk.id] = @ + AgreementBonus]
                     ELSE [id \in DOMAIN merged \cup {chunk.id} |->
                              IF id = chunk.id THEN chunk.score ELSE merged[id]]
         IN  MergeFtsNoFloor(next, Tail(fts_results))

\* the second loop, over fts_results
RECURSIVE MergeFts(_, _)
MergeFts(merged, fts_results) ==
    IF fts_results = <<>> THEN merged
    ELSE LET chunk == Head(fts_results)
             next == IF chunk.id \in DOMAIN merged
                     THEN [merged EXCEPT ![chunk.id] = @ + AgreementBonus]
                     ELSE [id \in DOMAIN merged \cup {chunk.id} |->
                              IF id = chunk.id THEN Max(chunk.score, AgreementBonus)
                              ELSE merged[id]]
         IN  MergeFts(next, Tail(fts_results))

\* merged.into_values().collect(), in the order keys
IntoValues(merged, keys) ==
    MapSeq(SelectSeq(keys, LAMBDA id : id \in DOMAIN merged),
           LAMBDA id : ScoredChunk(id, merged[id]))

\* what a call of hybrid_search computes: the Result of its vector_search,
\* the hits of its fts_chunk_search and its own Result
HybridCall(vector, fts_results, result) ==
    [vector |-> vector, fts_results |-> fts_results, result |-> result]

\* Result::unwrap_or_else(|e| vec![])
unwrap_or_empty(res) == IF res.ok THEN res.v ELSE <<>>

\* a hybrid_search that propagates the error of vector_search
hybrid_search_strict(db, query_embedding, query_text, limit, rows, keys, vfault, ffault) ==
    IF limit = 0 THEN HybridCall(Ok(<<>>), <<>>, Ok(<<>>))
    ELSE LET vector == vector_search(db, query_embedding, CandidateLimit, rows, vfault)
             fts == fts_chunk_search(db, query_text, CandidateLimit, rows, ffault)
         IN  IF ~vector.ok THEN HybridCall(vector, <<>>, vector)
             ELSE IF ~fts.ok THEN HybridCall(vector, <<>>, fts)
             ELSE LET merged == MergeFts(InsertAll(vector.v), fts.v)
                      combined == sort_by_score(IntoValues(merged, keys))
                  IN  HybridCall(vector, fts.v, Ok(truncate(combined, limit)))

\* a hybrid_search that does not truncate
hybrid_search_untruncated(db, query_embedding, query_text, limit, rows, keys, vfault, ffault) ==
    IF limit = 0 THEN HybridCall(Ok(<<>>), <<>>, Ok(<<>>))
    ELSE LET vector == vector_search(db, query_embedding, CandidateLimit, rows, vfault)
             fts == fts_chunk_search(db, query_text, CandidateLimit, rows, ffault)
         IN  IF ~fts.ok THEN HybridCall(vector, <<>>, fts)
             ELSE LET merged == MergeFts(InsertAll(unwrap_or_empty(vector)), fts.v)
                      combined == sort_by_score(IntoValues(merged, keys))
                  IN  HybridCall(vector, fts.v, Ok(combined))

hybrid_search(db, query_embedding, query_text, limit, rows, keys, vfault, ffault) ==
    IF limit = 0 THEN HybridCall(Ok(<<>>), <<>>, Ok(<<>>))
    ELSE LET vector == vector_search(db, query_embedding, CandidateLimit, rows, vfault)
             fts == fts_chunk_search(db, query_text, CandidateLimit, rows, ffault)
         IN  IF ~fts.ok THEN HybridCall(vector, <<>>, fts)
             ELSE LET merged == MergeFts(InsertAll(unwrap_or_empty(vector)), fts.v)
                      combined == sort_by_score(IntoValues(merged, keys))
                  IN  HybridCall(vector, fts.v, Ok(truncate(combined, limit)))

--------------------------------------------------------------------------
\* The text sanitiser (ai.rs) and search_documents (commands.rs)

Quote == "\""

Star == "*"

\* the separator of the join
OrSeparator == <<" ", "O", "R", " ">>

\* str::ends_with
ends_with(s, c) == s # <<>> /\ s[Len(s)] = c

\* [String]::join
RECURSIVE Join(_, _)
Join(parts, sep) ==
    IF parts = <<>> THEN <<>>
    ELSE IF Len(parts) = 1 THEN parts[1]
    ELSE parts[1] \o sep \o Join(Tail(parts), sep)

\* a closure that leaves the double quotes of the term in place
sanitise_term_unfiltered(term) ==
    LET is_prefix == ends_with(term, Star)
        base == IF is_prefix THEN SubSeq(term, 1, Len(term) - 1) ELSE term
    IN  IF base = <<>> THEN <<>>
        ELSE IF is_prefix THEN <<Quote>> \o base \o <<Quote, Star>>
        ELSE <<Quote>> \o base \o <<Quote>>

\* the closure sanitise_fts5_query maps over the terms
sanitise_term(term) ==
    LET is_prefix == ends_with(term, Star)
        base == IF is_prefix THEN SubSeq(term, 1, Len(term) - 1) ELSE term
        clean == SelectSeq(base, LAMBDA c : c # Quote)
    IN  IF clean = <<>> THEN <<>>
        ELSE IF is_prefix THEN <<Quote>> \o clean \o <<Quote, Star>>
        ELSE <<Quote>> \o clean \o <<Quote>>

sanitise_fts5_query(input) ==
    Join(SelectSeq(MapSeq(split_whitespace(input), sanitise_term),
                   LAMBDA t : t # <<>>),
         OrSeparator)

\* what a call of search_documents did: the MATCH queries it ran and what it
\* returned
SearchCall(queries, result) == [queries |-> queries, result |-> result]

\* a search_documents that runs the query whatever the sanitiser returned
search_documents_unchecked(db, query, lock_ok, rows) ==
    IF ~lock_ok THEN SearchCall(<<>>, Err("lock_poisoned"))
    ELSE IF db = NoDatabase THEN SearchCall(<<>>, Err("no_connection"))
    ELSE SearchCall(<<sanitise_fts5_query(query)>>, rows)

\* lock_ok: the manager's mutex is not poisoned; rows: what the MATCH
\* statement gives when it is run
search_documents(db, query, lock_ok, rows) ==
    IF ~lock_ok THEN SearchCall(<<>>, Err("lock_poisoned"))
    ELSE IF db = NoDatabase THEN SearchCall(<<>>, Err("no_connection"))
    ELSE LET sanitised_query == sanitise_fts5_query(query)
         IN  IF sanitised_query = <<>> THEN SearchCall(<<>>, Ok(<<>>))
             ELSE SearchCall(<<sanitised_query>>, rows)

--------------------------------------------------------------------------
\* The prompt builder and the source references (ai.rs)

\* the chunks past which build_source_references does not look
SourcesLimit == 6

DecimalDigits == <<"0", "1", "2", "3", "4", "5", "6", "7", "8", "9">>

\* usize::to_string
RECURSIVE to_string(_)
to_string(n) ==
    IF n < 10 THEN <<DecimalDigits[n + 1]>>
    ELSE to_string(n \div 10) \o <<DecimalDigits[(n % 10) + 1]>>

\* Text is a sequence of fragments: single characters, or literals of the
\* source kept whole.

SystemContent ==
    <<"You are a helpful assistant for an engineering handbook. Answer questions based on the provided context from the handbook. If the context does not contain enough information to answer, say so honestly. Use clear, concise language. Format your response with markdown where appropriate.">>

ContextOpen == "--- Context "

ContextClose == " ---"

NoContext == "No relevant context was found in the handbook."

UserOpen == "Here is relevant context from the engineering handbook:\n\n"

QuestionOpen == "\n\n---\n\nQuestion: "

AiChatMessage(role, content) == [role |-> role, content |-> content]

\* the context part of the chunk at index i, counted from first
context_part(chunk, i, first) ==
    LET heading == IF chunk.heading_context = <<>> THEN <<>>
                   ELSE <<" (">> \o chunk.heading_context \o <<")">>
    IN  <<ContextOpen>> \o to_string(i - 1 + first) \o <<ContextClose>> \o heading
            \o <<"\n">> \o chunk.content_text

\* a builder that numbers the context blocks from 0
build_rag_prompt_from_zero(chunks, text) ==
    LET context_parts == [i \in 1..Len(chunks) |-> context_part(chunks[i], i, 0)]
        context_block == IF context_parts = <<>> THEN <<NoContext>>
                         ELSE Join(context_parts, <<"\n\n">>)
    IN  << AiChatMessage("system", SystemContent),
           AiChatMessage("user", <<UserOpen>> \o context_block \o <<QuestionOpen>> \o text) >>

build_rag_prompt(chunks, text) ==
    LET context_parts == [i \in 1..Len(chunks) |-> context_part(chunks[i], i, 1)]
        context_block == IF context_parts = <<>> THEN <<NoContext>>
                         ELSE Join(context_parts, <<"\n\n">>)
    IN  << AiChatMessage("system", SystemContent),
           AiChatMessage("user", <<UserOpen>> \o context_block \o <<QuestionOpen>> \o text) >>

AiSourceReference(document_id) == [document_id |-> document_id]

\* the loop of build_source_references from chunk i on: doc_meta holds the
\* documents already looked up, absent the documents with no row
RECURSIVE SourcesFrom(_, _, _, _, _)
SourcesFrom(documents, absent, i, doc_meta, sources) ==
    IF i > Len(documents) THEN Ok(sources)
    ELSE IF documents[i] \in doc_meta
    THEN SourcesFrom(documents, absent, i + 1, doc_meta,
                     Append(sources, AiSourceReference(documents[i])))
    ELSE IF documents[i] \in absent THEN Err("source_error")
    ELSE SourcesFrom(documents, absent, i + 1, doc_meta \cup {documents[i]},
                     Append(sources, AiSourceReference(documents[i])))

\* a build_source_references that leaves out the chunks it cannot resolve
build_source_references_lenient(documents, absent, limit) ==
    SourcesFrom(SelectSeq(Take(documents, limit), LAMBDA d : d \notin absent),
                absent, 1, {}, <<>>)

\* documents: the document_id of each chunk, in rank order
build_source_references(documents, absent, limit) ==
    IF documents = <<>> \/ limit = 0 THEN Ok(<<>>)
    ELSE SourcesFrom(Take(documents, limit), absent, 1, {}, <<>>)

--------------------------------------------------------------------------
\* The embedding client (ai.rs)

OLLAMA_CACHE_TTL_SECS == 30

\* the seconds that pass in one step of the clock, and the age past which a
\* cache entry is not aged further
ClockStep == 15

MaxAge == 45

\* the states of an Option<String> setting
OptionStates == {"none", "blank", "set"}

\* every settings value the store can hold
AllSettings ==
    [openai_api_key : OptionStates, anthropic_api_key : OptionStates,
     gemini_api_key : OptionStates, ollama_base_url : OptionStates,
     preferred_provider : Providers \cup {"none", "unparsable"}]

\* an HTTP request: the provider it is sent to and what it asks for
Request(endpoint, kind) == [endpoint |-> endpoint, kind |-> kind]

\* the cache entry of a check made age seconds ago
Checked(available, age) == Some([available |-> available, age |-> age])

\* what a call did: the requests it sent, what it returned, the cache it left
Done(requests, result, cache) == [requests |-> requests, result |-> result, cache |-> cache]

\* a check that probes on every call
is_ollama_available_uncached(cache, probe) ==
    Done(<<Request("ollama", "probe")>>, probe, Checked(probe, 0))

\* probe: whether the GET of the base URL succeeds now
is_ollama_available(cache, probe) ==
    IF cache.some /\ cache.v.age < OLLAMA_CACHE_TTL_SECS
    THEN Done(<<>>, cache.v.available, cache)
    ELSE Done(<<Request("ollama", "probe")>>, probe, Checked(probe, 0))

\* net: what the embedding request comes to
generate_openai_embedding(s, net) ==
    IF s.openai_api_key = "none" THEN Done(<<>>, Err("key_missing"), None)
    ELSE Done(<<Request("openai", "embedding")>>, net, None)

generate_ollama_embedding(s, net) == Done(<<Request("ollama", "embedding")>>, net, None)

generate_gemini_embedding(s, net) ==
    IF s.gemini_api_key = "none" THEN Done(<<>>, Err("key_missing"), None)
    ELSE Done(<<Request("gemini", "embedding")>>, net, None)

\* a chain that asks the providers with a key before it asks Ollama
generate_embedding_keys_first(s, p, cache, probe, net) ==
    CASE p = "openai" ->
            Done(generate_openai_embedding(s, net).requests,
                 generate_openai_embedding(s, net).result, cache)
      [] p = "gemini" ->
            Done(generate_gemini_embedding(s, net).requests,
                 generate_gemini_embedding(s, net).result, cache)
      [] p = "ollama" ->
            Done(generate_ollama_embedding(s, net).requests,
                 generate_ollama_embedding(s, net).result, cache)
      [] p = "anthropic" ->
            IF s.openai_api_key # "none"
            THEN Done(<<Request("openai", "embedding")>>, net, cache)
            ELSE IF s.gemini_api_key # "none"
            THEN Done(<<Request("gemini", "embedding")>>, net, cache)
            ELSE LET available == is_ollama_available(cache, probe)
                 IN  IF available.result
                     THEN Done(available.requests \o <<Request("ollama", "embedding")>>,
                               net, available.cache)
                     ELSE Done(available.requests, Err("no_embedding_provider"),
                               available.cache)

\* generate_embedding, for the provider p of the request
\* a chain that goes on to the providers with a key when the Ollama
\* embedding request fails
generate_embedding_fall_through(s, p, cache, probe, net) ==
    CASE p = "openai" ->
            Done(generate_openai_embedding(s, net).requests,
                 generate_openai_embedding(s, net).result, cache)
      [] p = "gemini" ->
            Done(generate_gemini_embedding(s, net).requests,
                 generate_gemini_embedding(s, net).result, cache)
      [] p = "ollama" ->
            Done(generate_ollama_embedding(s, net).requests,
                 generate_ollama_embedding(s, net).result, cache)
      [] p = "anthropic" ->
            LET available == is_ollama_available(cache, probe)
                keyed ==
                    IF s.openai_api_key # "none" THEN generate_openai_embedding(s, net)
                    ELSE IF s.gemini_api_key # "none" THEN generate_gemini_embedding(s, net)
                    ELSE Done(<<>>, Err("no_embedding_provider"), None)
                first == generate_ollama_embedding(s, net)
                embedded ==
                    IF ~available.result THEN keyed
                    ELSE IF first.result.ok THEN first
                    ELSE Done(first.requests \o keyed.requests, keyed.result, None)
            IN  Done(available.requests \o embedded.requests, embedded.result,
                     available.cache)

generate_embedding_for(s, p, cache, probe, net) ==
    CASE p = "openai" ->
            Done(generate_openai_embedding(s, net).requests,
                 generate_openai_embedding(s, net).result, cache)
      [] p = "gemini" ->
            Done(generate_gemini_embedding(s, net).requests,
                 generate_gemini_embedding(s, net).result, cache)
      [] p = "ollama" ->
            Done(generate_ollama_embedding(s, net).requests,
                 generate_ollama_embedding(s, net).result, cache)
      [] p = "anthropic" ->
            LET available == is_ollama_available(cache, probe)
                embedded ==
                    IF available.result THEN generate_ollama_embedding(s, net)
                    ELSE IF s.openai_api_key # "none" THEN generate_openai_embedding(s, net)
                    ELSE IF s.gemini_api_key # "none" THEN generate_gemini_embedding(s, net)
                    ELSE Done(<<>>, Err("no_embedding_provider"), None)
            IN  Done(available.requests \o embedded.requests, embedded.result,
                     available.cache)

--------------------------------------------------------------------------
\* The project manager (projects.rs): a project is its id and its built_in
\* flag, a connection is the key it is stored under.

Handbook == "engineering-handbook"

\* the ids add_project makes of the names it is given
UserProjects == {"p1", "p2"}

\* Projects in the registry.
MaxProjects == 3

Project(id, built_in) == [id |-> id, built_in |-> built_in]

ProjectManager(reg, conns) == [registry |-> reg, connections |-> conns]

\* ProjectRegistry::default()
ProjectRegistryDefault ==
    [projects |-> <<Project(Handbook, TRUE)>>, active_project_id |-> Handbook]

RECURSIVE FindProject(_, _, _)
\* projects.iter().find(|p| p.id == project_id): its index, 0 for None
FindProject(projects, project_id, i) ==
    IF i > Len(projects) THEN 0
    ELSE IF projects[i].id = project_id THEN i
    ELSE FindProject(projects, project_id, i + 1)

active_connection(m) ==
    IF m.registry.active_project_id \in m.connections
    THEN Ok(m.registry.active_project_id) ELSE Err("no_connection")

close_connection(m, project_id) ==
    ProjectManager(m.registry, m.connections \ {project_id})

\* opened: Connection::open_with_flags succeeds
open_connection(m, project_id, opened) ==
    IF opened THEN Ok(ProjectManager(m.registry, m.connections \cup {project_id}))
    ELSE Err(m)

\* ProjectManager::set_active_project: the manager afterwards, Ok or Err
ProjectManager_set_active_project(m, project_id) ==
    IF FindProject(m.registry.projects, project_id, 1) = 0 THEN Err(m)
    ELSE IF project_id \notin m.connections THEN Err(m)
    ELSE Ok(ProjectManager([m.registry EXCEPT !.active_project_id = project_id],
                           m.connections))

\* ProjectManager::add_project
ProjectManager_add_project(m, project) ==
    ProjectManager([m.registry EXCEPT !.projects = Append(@, project)], m.connections)

\* ProjectManager::remove_project
ProjectManager_remove_project(m, project_id) ==
    LET found == FindProject(m.registry.projects, project_id, 1)
        retained == SelectSeq(m.registry.projects, LAMBDA q : q.id # project_id)
        active == IF m.registry.active_project_id # project_id
                  THEN m.registry.active_project_id
                  ELSE IF retained = <<>> THEN "" ELSE retained[1].id
    IN  IF found = 0 \/ m.registry.projects[found].built_in THEN Err(m)
        ELSE Ok(ProjectManager([projects |-> retained, active_project_id |-> active],
                               close_connection(m, project_id).connections))

\* the setup of run (lib.rs): stored is the registry in the store, openable
\* the user projects whose database file is there and opens
run(stored, openable) ==
    LET conns == {Handbook} \cup
                 {stored.projects[i].id : i \in {j \in 1..Len(stored.projects) :
                        /\ ~stored.projects[j].built_in
                        /\ stored.projects[j].id \in openable}}
    IN  ProjectManager(
            IF stored.active_project_id \in conns THEN stored
            ELSE [stored EXCEPT !.active_project_id = Handbook],
            conns)

\* the registries an earlier run may have left in the store
StoredRegistries ==
    LET UserLists == {<<>>, <<Project("p1", FALSE)>>, <<Project("p2", FALSE)>>,
                      <<Project("p1", FALSE), Project("p2", FALSE)>>}
        Valid == {pair \in UserLists \X ({Handbook} \cup UserProjects) :
                    FindProject(<<Project(Handbook, TRUE)>> \o pair[1], pair[2], 1) # 0}
    IN  {[projects |-> <<Project(Handbook, TRUE)>> \o pair[1],
          active_project_id |-> pair[2]] : pair \in Valid}

--------------------------------------------------------------------------
VARIABLES
    settings,       \* the stored Settings
    cancelled,      \* CANCELLED_REQUESTS
    sink,           \* the events emitted through AppHandle::emit, in order
    pc,             \* where each ask_question call stands
    provider,       \* the provider resolve_provider returned
    snapshot,       \* the Settings ask_question_rag loaded
    embedding,      \* the result of generate_embedding
    rag_chunks,     \* the search whose result ask_question_rag holds in chunks
    buffer,         \* the line buffer of the stream client
    emitted_text,   \* stream_gemini's emitted_text
    ret,            \* the return statement the call left by
    sock,           \* bytes the provider sent, not yet read
    closed,         \* the provider closed the connection
    sent,           \* lines the provider has sent
    wire,           \* every symbol the client read, in order
    cancelAt,       \* what had been emitted and read when the flag was set in flight
    stale,          \* the flag was set before the question was asked
    conn,           \* the database a search is run against
    question,       \* the query text of the search
    query_vec,      \* the query embedding of the search
    max_results,    \* the limit of the search
    outcome,        \* what the search returned
    manager,        \* the call that holds the project manager's mutex
    ollama_cache,   \* OLLAMA_AVAILABLE_CACHE
    tasks,          \* the registry call each task is in
    registry_lock,  \* the task that holds the mutex of CANCELLED_REQUESTS
    last,           \* per request id, the last cancel or clear that completed
    registry,       \* ProjectManager.registry
    connections,    \* the keys of ProjectManager.connections
    builds          \* the projects rebuild_project is building

vars == <<settings, cancelled, sink, pc, provider, snapshot, embedding, rag_chunks,
          buffer, emitted_text, ret, sock, closed, sent, wire, cancelAt, stale,
          conn, question, query_vec, max_results, outcome,
          manager, ollama_cache, tasks, registry_lock, last,
          registry, connections, builds>>

callVars == <<provider, snapshot, embedding, rag_chunks, buffer, emitted_text>>

\* the state of the search functions, which the commands leave alone
searchVars == <<conn, question, query_vec, max_results, outcome>>

\* the state of the commands, which the search functions leave alone
ragVars == <<settings, cancelled, sink, pc, provider, snapshot, embedding, rag_chunks,
             buffer, emitted_text, ret, sock, closed, sent, wire, cancelAt, stale,
             manager>>

\* the state of the embedding client and of the tasks that call the registry
unitVars == <<ollama_cache, tasks, registry_lock, last, registry, connections, builds>>

\* the state of the project manager
projectVars == <<registry, connections, builds>>

netVars == <<sock, closed, sent, wire>>

ghostVars == <<cancelAt, stale>>

\* the limit ask_question_rag passes to hybrid_search and fts_chunk_search
RagLimit == 8

\* the documents of the model
DocumentIds == {1, 2}

\* the chunks a search returns, in rank order, as the document_id of each: at
\* most RagLimit chunks of document 1, but for at most one chunk of document 2
Rankings ==
    {[i \in 1..n |-> IF i = k THEN 2 ELSE 1] : n \in 0..RagLimit, k \in 0..RagLimit}

\* the documents of the chunks that have no row in the documents table
AbsentSets == {{}, {2}}

\* rag_chunks before the search and after build_rag_prompt has consumed it
NoChunks == [search |-> "none", limit |-> 0, documents |-> <<>>, absent |-> {}]

\* rag_chunks after the search ask_question_rag runs on query_embedding
SearchFor(query_embedding, documents, absent) ==
    [search |-> IF query_embedding = "ok" THEN "hybrid_search" ELSE "fts_chunk_search",
     limit |-> RagLimit, documents |-> documents, absent |-> absent]

\* cancelAt when the flag has not been set since ask_question_rag cleared it
NoMark == [chunks |-> -1, read |-> -1, at |-> "none"]

InFlight ==
    {"rag", "embedding", "retrieve", "locked", "sources", "stream", "connecting",
     "reading", "lines"}

\* the returns with Ok(())
OkReturns == {"terminal", "cancelled", "closed"}

\* the returns with Err, by cause
ConfigErrors == {NotConfigured(p) : p \in Providers} \cup {"no_provider", "key_missing"}

TransportErrors == {"connect_error", "bad_status", "read_error"}

DatabaseErrors == {"lock_poisoned", "no_connection", "search_error", "source_error"}

EventsOf(r) == SelectSeq(sink, LAMBDA e : e.request_id = r)

EventsOfType(r, type) == SelectSeq(EventsOf(r), LAMBDA e : e.type = type)

NumChunks(r) == Len(EventsOfType(r, "chunk"))

RECURSIVE ChunkEvents(_, _)
ChunkEvents(r, contents) ==
    IF contents = <<>> THEN <<>>
    ELSE <<AiResponseChunkEvent(r, Head(contents))>> \o ChunkEvents(r, Tail(contents))

\* what the harness of the search functions holds: the function called and
\* what it computed
Outcome(fn, call) == [fn |-> fn, call |-> call]

NoOutcome == Outcome("none", HybridCall(Ok(<<>>), <<>>, Ok(<<>>)))

\* the tasks that call the registry, and the request ids they name
Tasks == {"t1", "t2"}

RequestIds == {"r1", "r2"}

\* a task that is in no call of the registry
NoCall == [op |-> "none", id |-> "none", at |-> "idle", set |-> {}, result |-> FALSE]

\* no search has been set up
SearchIdle ==
    /\ conn = NoDatabase
    /\ question = "none"
    /\ query_vec = <<>>
    /\ max_results = 0
    /\ outcome = NoOutcome

\* no command has been called: every call is idle and the sink is empty
CommandsIdle ==
    /\ cancelled = {}
    /\ sink = <<>>
    /\ pc = [r \in Requests |-> "idle"]
    /\ provider = [r \in Requests |-> "none"]
    /\ snapshot = [r \in Requests |-> DefaultSettings]
    /\ embedding = [r \in Requests |-> "none"]
    /\ rag_chunks = [r \in Requests |-> NoChunks]
    /\ buffer = [r \in Requests |-> <<>>]
    /\ emitted_text = [r \in Requests |-> <<>>]
    /\ ret = [r \in Requests |-> "none"]
    /\ sock = [r \in Requests |-> <<>>]
    /\ closed = [r \in Requests |-> FALSE]
    /\ sent = [r \in Requests |-> 0]
    /\ wire = [r \in Requests |-> <<>>]
    /\ cancelAt = [r \in Requests |-> NoMark]
    /\ stale = [r \in Requests |-> FALSE]
    /\ manager = "none"

\* no command has been called, under the default settings
RagIdle ==
    /\ settings = DefaultSettings
    /\ CommandsIdle

\* the liveness probe has not run and no task calls the registry
ClientsIdle ==
    /\ ollama_cache = None
    /\ tasks = [t \in Tasks |-> NoCall]
    /\ registry_lock = "none"
    /\ last = [id \in RequestIds |-> "none"]

\* the project manager after a first start, with no project command called
UnitIdle ==
    /\ ClientsIdle
    /\ registry = ProjectRegistryDefault
    /\ connections = {Handbook}
    /\ builds = {}

Init ==
    /\ settings \in SettingsChoices
    /\ cancelled = {}
    /\ sink = <<>>
    /\ pc = [r \in Requests |-> "idle"]
    /\ provider = [r \in Requests |-> "none"]
    /\ snapshot = [r \in Requests |-> DefaultSettings]
    /\ embedding = [r \in Requests |-> "none"]
    /\ rag_chunks = [r \in Requests |-> NoChunks]
    /\ buffer = [r \in Requests |-> <<>>]
    /\ emitted_text = [r \in Requests |-> <<>>]
    /\ ret = [r \in Requests |-> "none"]
    /\ sock = [r \in Requests |-> <<>>]
    /\ closed = [r \in Requests |-> FALSE]
    /\ sent = [r \in Requests |-> 0]
    /\ wire = [r \in Requests |-> <<>>]
    /\ cancelAt = [r \in Requests |-> NoMark]
    /\ stale = [r \in Requests |-> FALSE]
    /\ manager = "none"
    /\ SearchIdle
    /\ UnitIdle

--------------------------------------------------------------------------
\* The cancellation registry (ai.rs)

\* a registry whose membership test never answers true
is_cancelled_never(r) == FALSE

is_cancelled(r) == r \in cancelled

\* a registry whose clear empties the set
clear_cancel_request_all(r) == {}

clear_cancel_request(r) == cancelled \ {r}

cancel_request(r) == cancelled \cup {r}

\* the cancel_ai_request command
cancel_ai_request(r) ==
    /\ cancelled' = cancel_request(r)
    /\ cancelAt' = [cancelAt EXCEPT ![r] =
            IF pc[r] \in InFlight \ {"rag"} /\ r \notin cancelled
            THEN [chunks |-> NumChunks(r), read |-> Len(wire[r]), at |-> pc[r]] ELSE @]
    /\ stale' = [stale EXCEPT ![r] = @ \/ pc[r] = "idle"]
    /\ UNCHANGED <<settings, sink, pc, ret, callVars, netVars>>
    /\ UNCHANGED <<manager, searchVars, unitVars>>

\* the save_settings command
save_settings(new_settings) ==
    /\ settings # new_settings
    /\ settings' = new_settings
    /\ UNCHANGED <<cancelled, sink, pc, ret, callVars, netVars, ghostVars>>
    /\ UNCHANGED <<manager, searchVars, unitVars>>

--------------------------------------------------------------------------
\* The ask_question command (commands.rs) and ask_question_rag (ai.rs)

\* the call returns: its locals and its connection are dropped
Return(r, label) ==
    /\ pc' = [pc EXCEPT ![r] = "returned"]
    /\ ret' = [ret EXCEPT ![r] = label]
    /\ snapshot' = [snapshot EXCEPT ![r] = DefaultSettings]
    /\ embedding' = [embedding EXCEPT ![r] = "none"]
    /\ rag_chunks' = [rag_chunks EXCEPT ![r] = NoChunks]
    /\ buffer' = [buffer EXCEPT ![r] = <<>>]
    /\ emitted_text' = [emitted_text EXCEPT ![r] = <<>>]
    /\ sock' = [sock EXCEPT ![r] = <<>>]
    /\ closed' = [closed EXCEPT ![r] = FALSE]
    /\ sent' = [sent EXCEPT ![r] = 0]

\* the call goes on
Continue(r, at) ==
    /\ pc' = [pc EXCEPT ![r] = at]
    /\ UNCHANGED ret

\* ask_question returns Err(message) without an event
ReturnErr(r, message) == Return(r, message)

\* ask_question_rag returns Err(message): ask_question emits the error-event
\* and returns the error
RagErr(r, message) ==
    /\ sink' = Append(sink, error_event(r, message))
    /\ ReturnErr(r, message)

\* a stream client emits the done-event, clears the flag and returns Ok(())
StreamOk(r, events, label) ==
    /\ sink' = sink \o events
    /\ cancelled' = clear_cancel_request(r)
    /\ Return(r, label)

\* a client that emits a done-event on its error path as well
StreamErrDone(r, message) ==
    /\ cancelled' = clear_cancel_request(r)
    /\ sink' = sink \o <<AiResponseDoneEvent(r, FALSE), error_event(r, message)>>
    /\ Return(r, message)

\* a stream client returns Err(message): ask_question_rag clears the flag
StreamErr(r, message) ==
    /\ cancelled' = clear_cancel_request(r)
    /\ RagErr(r, message)

\* ask_question up to the call of ask_question_rag
ask_question(r, explicit, store_ok) ==
    /\ pc[r] = "idle"
    /\ LET resolved == resolve_provider(settings, explicit)
       IN  IF ~store_ok
           THEN ReturnErr(r, "settings_error") /\ UNCHANGED provider
           ELSE IF ~resolved.ok
           THEN ReturnErr(r, resolved.v) /\ UNCHANGED provider
           ELSE /\ Continue(r, "rag")
                /\ provider' = [provider EXCEPT ![r] = resolved.v]
                /\ UNCHANGED <<snapshot, embedding, rag_chunks, buffer, emitted_text,
                               sock, closed, sent>>
    /\ UNCHANGED <<settings, cancelled, sink, wire, ghostVars>>
    /\ UNCHANGED <<manager, searchVars, unitVars>>

\* a pipeline that starts without clearing the flag
ask_question_rag_keep_flag(r, store_ok) ==
    /\ pc[r] = "rag"
    /\ cancelAt' = [cancelAt EXCEPT ![r] = NoMark]
    /\ IF store_ok
       THEN /\ snapshot' = [snapshot EXCEPT ![r] = settings]
            /\ Continue(r, "embedding")
            /\ UNCHANGED <<sink, embedding, rag_chunks, buffer, emitted_text, sock, closed, sent>>
       ELSE RagErr(r, "rag_settings_error")
    /\ UNCHANGED <<settings, cancelled, provider, wire, stale>>
    /\ UNCHANGED <<manager, searchVars, unitVars>>

\* ask_question_rag up to the call of generate_embedding
ask_question_rag(r, store_ok) ==
    /\ pc[r] = "rag"
    /\ cancelled' = clear_cancel_request(r)
    /\ cancelAt' = [cancelAt EXCEPT ![r] = NoMark]
    /\ UNCHANGED stale
    /\ IF store_ok
       THEN /\ snapshot' = [snapshot EXCEPT ![r] = settings]
            /\ Continue(r, "embedding")
            /\ UNCHANGED <<sink, embedding, rag_chunks, buffer, emitted_text, sock, closed, sent>>
       ELSE RagErr(r, "rag_settings_error")
    /\ UNCHANGED <<settings, provider, wire>>
    /\ UNCHANGED <<manager, searchVars, unitVars>>

\* generate_embedding returns
generate_embedding(r, result) ==
    /\ pc[r] = "embedding"
    /\ embedding' = [embedding EXCEPT ![r] = result]
    /\ Continue(r, "retrieve")
    /\ UNCHANGED <<settings, cancelled, sink, provider, snapshot, rag_chunks, buffer,
                   emitted_text, netVars, ghostVars>>
    /\ UNCHANGED <<manager, searchVars, unitVars>>

\* manager.lock() at the head of the database block
lock_manager(r, result) ==
    /\ pc[r] = "retrieve"
    /\ IF result = "ok"
       THEN /\ manager = "none"
            /\ manager' = r
            /\ Continue(r, "locked")
            /\ UNCHANGED <<sink, snapshot, embedding, rag_chunks, buffer, emitted_text,
                           sock, closed, sent>>
       ELSE /\ RagErr(r, result)
            /\ UNCHANGED manager
    /\ UNCHANGED <<settings, cancelled, provider, wire, ghostVars>>
    /\ UNCHANGED <<searchVars, unitVars>>

\* an ask_question_rag that propagates the error of generate_embedding
retrieve_abort(r, result, documents, absent) ==
    /\ pc[r] = "locked"
    /\ IF result = "ok" /\ embedding[r] = "ok"
       THEN /\ rag_chunks' = [rag_chunks EXCEPT ![r] =
                                    SearchFor(embedding[r], documents, absent)]
            /\ embedding' = [embedding EXCEPT ![r] = "none"]
            /\ Continue(r, "sources")
            /\ UNCHANGED <<sink, manager, snapshot, buffer, emitted_text, sock, closed, sent>>
       ELSE /\ RagErr(r, IF result = "ok" THEN "embedding_error" ELSE result)
            /\ manager' = "none"
    /\ UNCHANGED <<settings, cancelled, provider, wire, ghostVars>>
    /\ UNCHANGED <<searchVars, unitVars>>

\* under the guard: active_connection and the search, which consumes
\* query_embedding and returns the ranked chunks; documents: the documents
\* of the chunks found, absent: the documents whose row cannot be read
retrieve(r, result, documents, absent) ==
    /\ pc[r] = "locked"
    /\ IF result = "ok"
       THEN /\ rag_chunks' = [rag_chunks EXCEPT ![r] =
                                    SearchFor(embedding[r], documents, absent)]
            /\ embedding' = [embedding EXCEPT ![r] = "none"]
            /\ Continue(r, "sources")
            /\ UNCHANGED <<sink, manager, snapshot, buffer, emitted_text, sock, closed, sent>>
       ELSE /\ RagErr(r, result)
            /\ manager' = "none"
    /\ UNCHANGED <<settings, cancelled, provider, wire, ghostVars>>
    /\ UNCHANGED <<searchVars, unitVars>>

\* an ask_question_rag that emits no sources-event
resolve_sources_silent(r) ==
    /\ pc[r] = "sources"
    /\ manager' = "none"
    /\ IF build_source_references(rag_chunks[r].documents, rag_chunks[r].absent,
                                  SourcesLimit).ok
       THEN /\ Continue(r, "stream")
            /\ UNCHANGED <<sink, snapshot, embedding, rag_chunks, buffer, emitted_text,
                           sock, closed, sent>>
       ELSE RagErr(r, "source_error")
    /\ UNCHANGED <<settings, cancelled, provider, wire, ghostVars>>
    /\ UNCHANGED <<searchVars, unitVars>>

\* an ask_question_rag whose guard lives to the end of the function
resolve_sources_holding(r) ==
    /\ pc[r] = "sources"
    /\ IF build_source_references(rag_chunks[r].documents, rag_chunks[r].absent,
                                  SourcesLimit).ok
       THEN /\ sink' = Append(sink, AiResponseSourcesEvent(r))
            /\ Continue(r, "stream")
            /\ UNCHANGED <<manager, snapshot, embedding, rag_chunks, buffer, emitted_text,
                           sock, closed, sent>>
       ELSE /\ RagErr(r, "source_error")
            /\ manager' = "none"
    /\ UNCHANGED <<settings, cancelled, provider, wire, ghostVars>>
    /\ UNCHANGED <<searchVars, unitVars>>

\* build_source_references on the first chunks, the end of the block, where
\* the guard is dropped, and the sources-event
resolve_sources(r) ==
    /\ pc[r] = "sources"
    /\ manager' = "none"
    /\ IF build_source_references(rag_chunks[r].documents, rag_chunks[r].absent,
                                  SourcesLimit).ok
       THEN /\ sink' = Append(sink, AiResponseSourcesEvent(r))
            /\ Continue(r, "stream")
            /\ UNCHANGED <<snapshot, embedding, rag_chunks, buffer, emitted_text,
                           sock, closed, sent>>
       ELSE RagErr(r, "source_error")
    /\ UNCHANGED <<settings, cancelled, provider, wire, ghostVars>>
    /\ UNCHANGED <<searchVars, unitVars>>

\* stream_chat_response: the key check of stream_* and the request sent
stream_chat_response(r) ==
    /\ pc[r] = "stream"
    /\ IF stream_key_present(snapshot[r], provider[r])
       THEN /\ Continue(r, "connecting")
            /\ rag_chunks' = [rag_chunks EXCEPT ![r] = NoChunks]
            /\ UNCHANGED <<cancelled, sink, snapshot, embedding, buffer,
                           emitted_text, sock, closed, sent>>
       ELSE StreamErr(r, "key_missing")
    /\ UNCHANGED <<settings, provider, wire, ghostVars>>
    /\ UNCHANGED <<manager, searchVars, unitVars>>

\* send().await returns, and the status is checked
connect(r, result) ==
    /\ pc[r] = "connecting"
    /\ IF result = "ok"
       THEN /\ Continue(r, "reading")
            /\ UNCHANGED <<cancelled, sink, snapshot, embedding, rag_chunks, buffer,
                           emitted_text, sock, closed, sent>>
       ELSE StreamErr(r, result)
    /\ UNCHANGED <<settings, provider, wire, ghostVars>>
    /\ UNCHANGED <<manager, searchVars, unitVars>>

--------------------------------------------------------------------------
\* The provider's end of the connection

provider_send(r) ==
    /\ pc[r] \in {"reading", "lines"}
    /\ ~closed[r]
    /\ sent[r] < MaxLines
    /\ \E line \in WireLines(provider[r]) :
            sock' = [sock EXCEPT ![r] = @ \o line \o <<NL>>]
    /\ sent' = [sent EXCEPT ![r] = @ + 1]
    /\ UNCHANGED <<settings, cancelled, sink, pc, ret, callVars, closed, wire,
                   ghostVars>>
    /\ UNCHANGED <<manager, searchVars, unitVars>>

provider_close(r) ==
    /\ pc[r] \in {"reading", "lines"}
    /\ ~closed[r]
    /\ \E fragment \in WireFragments(provider[r]) :
            sock' = [sock EXCEPT ![r] = @ \o fragment]
    /\ closed' = [closed EXCEPT ![r] = TRUE]
    /\ UNCHANGED <<settings, cancelled, sink, pc, ret, callVars, sent, wire,
                   ghostVars>>
    /\ UNCHANGED <<manager, searchVars, unitVars>>

--------------------------------------------------------------------------
\* The read loop of the stream clients (stream_openai, stream_anthropic,
\* stream_ollama, stream_gemini)

\* stream.next().await yields Some(Ok(chunk)): the first n symbols in flight
read_chunk(r) ==
    /\ pc[r] = "reading"
    /\ \E n \in 1..Len(sock[r]) :
         LET chunk == SubSeq(sock[r], 1, n)
         IN  /\ buffer' = [buffer EXCEPT ![r] = @ \o Utf8Lossy(chunk)]
             /\ wire' = [wire EXCEPT ![r] = @ \o chunk]
             /\ sock' = [sock EXCEPT ![r] = SubSeq(@, n + 1, Len(@))]
    /\ Continue(r, "lines")
    /\ UNCHANGED <<settings, cancelled, sink, provider, snapshot,
                   embedding, rag_chunks, emitted_text, closed, sent, ghostVars>>
    /\ UNCHANGED <<manager, searchVars, unitVars>>

\* a client that reports the cancellation flag when the stream ends
read_end_flag(r) ==
    /\ pc[r] = "reading"
    /\ closed[r] /\ sock[r] = <<>>
    /\ StreamOk(r, <<AiResponseDoneEvent(r, is_cancelled(r))>>, "closed")
    /\ UNCHANGED <<settings, provider, wire, ghostVars>>
    /\ UNCHANGED <<manager, searchVars, unitVars>>

\* stream.next().await yields None: the code after the loop
read_end(r) ==
    /\ pc[r] = "reading"
    /\ closed[r] /\ sock[r] = <<>>
    /\ StreamOk(r, <<AiResponseDoneEvent(r, FALSE)>>, "closed")
    /\ UNCHANGED <<settings, provider, wire, ghostVars>>
    /\ UNCHANGED <<manager, searchVars, unitVars>>

\* stream.next().await yields Some(Err(e))
read_error(r) ==
    /\ pc[r] = "reading"
    /\ StreamErr(r, "read_error")
    /\ UNCHANGED <<settings, provider, wire, ghostVars>>
    /\ UNCHANGED <<manager, searchVars, unitVars>>

\* a client whose terminal signal emits the done-event but does not return
process_line_no_return(r) ==
    /\ pc[r] = "lines"
    /\ FindNewline(buffer[r]) > 0
    /\ LET line_end == FindNewline(buffer[r])
           line == SubSeq(buffer[r], 1, line_end)
           res == stream_line(provider[r], line, emitted_text[r])
       IN  /\ buffer' = [buffer EXCEPT ![r] = SubSeq(@, line_end + 1, Len(@))]
           /\ emitted_text' = [emitted_text EXCEPT ![r] = res.emitted]
           /\ sink' = sink \o ChunkEvents(r, res.chunks)
                    \o (IF res.done THEN <<AiResponseDoneEvent(r, FALSE)>> ELSE <<>>)
    /\ UNCHANGED <<cancelled, pc, ret, snapshot, embedding, rag_chunks, sock, closed, sent>>
    /\ UNCHANGED <<settings, provider, wire, ghostVars>>
    /\ UNCHANGED <<manager, searchVars, unitVars>>

\* one turn of the inner loop: drain a line and act on it
process_line(r) ==
    /\ pc[r] = "lines"
    /\ FindNewline(buffer[r]) > 0
    /\ LET line_end == FindNewline(buffer[r])
           line == SubSeq(buffer[r], 1, line_end)
           res == stream_line(provider[r], line, emitted_text[r])
       IN  IF res.done
           THEN StreamOk(r, ChunkEvents(r, res.chunks)
                             \o <<AiResponseDoneEvent(r, FALSE)>>, "terminal")
           ELSE /\ buffer' = [buffer EXCEPT ![r] = SubSeq(@, line_end + 1, Len(@))]
                /\ emitted_text' = [emitted_text EXCEPT ![r] = res.emitted]
                /\ sink' = sink \o ChunkEvents(r, res.chunks)
                /\ UNCHANGED <<cancelled, pc, ret, snapshot, embedding, rag_chunks, sock,
                               closed, sent>>
    /\ UNCHANGED <<settings, provider, wire, ghostVars>>
    /\ UNCHANGED <<manager, searchVars, unitVars>>

\* a client that returns the cancellation as an error
check_cancelled_error(r) ==
    /\ pc[r] = "lines"
    /\ FindNewline(buffer[r]) = 0
    /\ IF is_cancelled(r)
       THEN StreamErr(r, "cancel_error")
       ELSE /\ Continue(r, "reading")
            /\ UNCHANGED <<cancelled, sink, snapshot, embedding, rag_chunks, buffer,
                           emitted_text, sock, closed, sent>>
    /\ UNCHANGED <<settings, provider, wire, ghostVars>>
    /\ UNCHANGED <<manager, searchVars, unitVars>>

\* the check after the inner loop
check_cancelled(r) ==
    /\ pc[r] = "lines"
    /\ FindNewline(buffer[r]) = 0
    /\ IF is_cancelled(r)
       THEN StreamOk(r, <<AiResponseDoneEvent(r, TRUE)>>, "cancelled")
       ELSE /\ Continue(r, "reading")
            /\ UNCHANGED <<cancelled, sink, snapshot, embedding, rag_chunks, buffer,
                           emitted_text, sock, closed, sent>>
    /\ UNCHANGED <<settings, provider, wire, ghostVars>>
    /\ UNCHANGED <<manager, searchVars, unitVars>>

--------------------------------------------------------------------------
Next ==
    \/ \E r \in Requests : cancel_ai_request(r)
    \/ \E s \in SettingsChoices : save_settings(s)
    \/ \E r \in Requests, explicit \in Providers \cup {"none"}, store_ok \in BOOLEAN :
            ask_question(r, explicit, store_ok)
    \/ \E r \in Requests, store_ok \in BOOLEAN : ask_question_rag(r, store_ok)
    \/ \E r \in Requests, result \in {"ok", "err"} : generate_embedding(r, result)
    \/ \E r \in Requests, result \in {"ok", "lock_poisoned"} : lock_manager(r, result)
    \/ \E r \in Requests, result \in {"ok", "no_connection", "search_error"},
          documents \in Rankings, absent \in AbsentSets :
            retrieve(r, result, documents, absent)
    \/ \E r \in Requests : resolve_sources(r)
    \/ \E r \in Requests : stream_chat_response(r)
    \/ \E r \in Requests, result \in {"ok", "connect_error", "bad_status"} :
            connect(r, result)
    \/ \E r \in Requests : provider_send(r)
    \/ \E r \in Requests : provider_close(r)
    \/ \E r \in Requests : read_chunk(r)
    \/ \E r \in Requests : read_end(r)
    \/ \E r \in Requests : read_error(r)
    \/ \E r \in Requests : process_line(r)
    \/ \E r \in Requests : check_cancelled(r)

Spec == Init /\ [][Next]_vars

--------------------------------------------------------------------------
\* The search functions, called on a database, a query and a limit

SearchInit ==
    /\ RagIdle
    /\ UnitIdle
    /\ conn \in Databases
    /\ question \in DOMAIN Questions
    /\ query_vec \in QueryEmbeddings
    /\ max_results \in 0..MaxChunks
    /\ outcome = NoOutcome

call_vector_search ==
    /\ outcome = NoOutcome
    /\ \E rows \in RowOrders(ChunkIds), fault \in BOOLEAN :
          outcome' = Outcome("vector_search",
                HybridCall(Ok(<<>>), <<>>,
                           vector_search(Connection(conn), query_vec, max_results, rows, fault)))
    /\ UNCHANGED <<conn, question, query_vec, max_results>>
    /\ UNCHANGED <<ragVars, unitVars>>

call_fts_chunk_search ==
    /\ outcome = NoOutcome
    /\ \E rows \in RowOrders(ChunkIds), fault \in BOOLEAN :
          outcome' = Outcome("fts_chunk_search",
                HybridCall(Ok(<<>>), <<>>,
                           fts_chunk_search(Connection(conn), Questions[question], max_results, rows, fault)))
    /\ UNCHANGED <<conn, question, query_vec, max_results>>
    /\ UNCHANGED <<ragVars, unitVars>>

call_hybrid_search ==
    /\ outcome = NoOutcome
    /\ \E rows \in RowOrders(ChunkIds), keys \in RowOrders(ChunkIds),
           vfault \in BOOLEAN, ffault \in BOOLEAN :
          outcome' = Outcome("hybrid_search",
                hybrid_search(Connection(conn), query_vec, Questions[question], max_results,
                              rows, keys,
                              vfault, ffault))
    /\ UNCHANGED <<conn, question, query_vec, max_results>>
    /\ UNCHANGED <<ragVars, unitVars>>

SearchNext ==
    \/ call_vector_search
    \/ call_fts_chunk_search
    \/ call_hybrid_search

SearchSpec == SearchInit /\ [][SearchNext]_vars

--------------------------------------------------------------------------
\* The text functions, called on a text

\* the longest text over the sanitiser's characters
MaxText == 5

\* the most words of a question of stop words
MaxWords == 7

\* the most chunks of a prompt
MaxPromptChunks == 3

\* the sequences over the alphabet of length n or less
Strings(alphabet, n) == UNION {[1..k -> alphabet] : k \in 0..n}

\* foo* bar"baz
Text_example == <<"f", "o", "o", "*", " ", "b", "a", "r", "\"", "b", "a", "z">>

SanitiserTexts == Strings({"a", Star, Quote, " "}, MaxText) \cup {Text_example}

\* words that clean to a stop word
StopWords == { <<"i", "s">>, <<"I", "t", "'", "s">> }

\* a keyword, a letter of two bytes, a letter of one byte
OtherWords == { <<"G", "o", "!">>, <<"e-acute">>, <<"x">> }

KeywordTexts ==
    {Join(ws, <<" ">>) : ws \in Strings(StopWords \cup OtherWords, 3)
                                  \cup Strings(StopWords, MaxWords)}

Texts == SanitiserTexts \cup KeywordTexts

\* no open project, or a project whose chunks table is all there is
TextDatabases ==
    {NoDatabase}
        \cup {d \in Databases : d.tables = {"chunks"}
                                   /\ \A id \in ChunkIds : d.chunks[id] = "notes_only"}

PromptChunks ==
    { [heading_context |-> <<>>, content_text |-> <<"alpha">>],
      [heading_context |-> <<"Deploy">>, content_text |-> <<"beta">>] }

\* what the MATCH statement of search_documents gives when it is run
MatchRows == [none |-> Ok(<<>>), one |-> Ok(<<1>>), error |-> Err("search_error")]

TextInit ==
    /\ RagIdle
    /\ UnitIdle
    /\ conn \in TextDatabases
    /\ question \in Texts
    /\ query_vec = <<>>
    /\ max_results = 0
    /\ outcome = NoOutcome

call_sanitise_fts5_query ==
    /\ outcome = NoOutcome
    /\ outcome' = Outcome("sanitise_fts5_query", SearchCall(<<>>, sanitise_fts5_query(question)))
    /\ UNCHANGED <<conn, question, query_vec, max_results>>
    /\ UNCHANGED <<ragVars, unitVars>>

call_search_documents ==
    /\ outcome = NoOutcome
    /\ \E lock_ok \in BOOLEAN, rows \in DOMAIN MatchRows :
          outcome' = Outcome("search_documents",
                             search_documents(conn, question, lock_ok, MatchRows[rows]))
    /\ UNCHANGED <<conn, question, query_vec, max_results>>
    /\ UNCHANGED <<ragVars, unitVars>>

call_extract_keywords ==
    /\ outcome = NoOutcome
    /\ outcome' = Outcome("extract_keywords", SearchCall(<<>>, extract_keywords(question)))
    /\ UNCHANGED <<conn, question, query_vec, max_results>>
    /\ UNCHANGED <<ragVars, unitVars>>

call_build_rag_prompt ==
    /\ outcome = NoOutcome
    /\ \E chunks \in Strings(PromptChunks, MaxPromptChunks) :
          outcome' = Outcome("build_rag_prompt",
                             [chunks |-> chunks, result |-> build_rag_prompt(chunks, question)])
    /\ UNCHANGED <<conn, question, query_vec, max_results>>
    /\ UNCHANGED <<ragVars, unitVars>>

TextNext ==
    \/ call_sanitise_fts5_query
    \/ call_search_documents
    \/ call_extract_keywords
    \/ call_build_rag_prompt

TextSpec == TextInit /\ [][TextNext]_vars

--------------------------------------------------------------------------
\* The embedding client, called under every setting of the keys it reads

\* what an embedding request comes to
EmbeddingResults == {Ok("embedding"), Err("embedding_error")}

\* the settings values that differ in what generate_embedding reads
EmbeddingSettings ==
    {s \in AllSettings : /\ s.anthropic_api_key = "set"
                         /\ s.preferred_provider = "none"}

EmbeddingInit ==
    /\ settings \in EmbeddingSettings
    /\ CommandsIdle
    /\ SearchIdle
    /\ UnitIdle

call_generate_embedding ==
    /\ \E p \in Providers, probe \in BOOLEAN, net \in EmbeddingResults :
          LET done == generate_embedding_for(settings, p, ollama_cache, probe, net)
          IN  /\ outcome' = Outcome("generate_embedding",
                                    [provider |-> p, cached |-> ollama_cache,
                                     probe |-> probe, requests |-> done.requests,
                                     result |-> done.result])
              /\ ollama_cache' = done.cache
    /\ UNCHANGED <<conn, question, query_vec, max_results>>
    /\ UNCHANGED <<ragVars, tasks, registry_lock, last, projectVars>>

\* time passes
elapse ==
    /\ ollama_cache.some
    /\ ollama_cache.v.age < MaxAge
    /\ ollama_cache' = Checked(ollama_cache.v.available, ollama_cache.v.age + ClockStep)
    /\ UNCHANGED <<searchVars, ragVars, tasks, registry_lock, last, projectVars>>

EmbeddingNext ==
    \/ call_generate_embedding
    \/ elapse

EmbeddingSpec == EmbeddingInit /\ [][EmbeddingNext]_vars

--------------------------------------------------------------------------
\* The provider selection, called under every settings value, by itself
\* and by ask_question

ResolveInit ==
    /\ settings \in AllSettings
    /\ CommandsIdle
    /\ SearchIdle
    /\ UnitIdle

call_resolve_provider ==
    /\ outcome = NoOutcome
    /\ \E explicit \in Providers \cup {"none"} :
          outcome' = Outcome("resolve_provider",
                             [provider |-> explicit,
                              result |-> resolve_provider(settings, explicit)])
    /\ UNCHANGED <<conn, question, query_vec, max_results>>
    /\ UNCHANGED <<ragVars, unitVars>>

ResolveNext ==
    \/ call_resolve_provider
    \/ \E r \in Requests, explicit \in Providers \cup {"none"}, store_ok \in BOOLEAN :
            ask_question(r, explicit, store_ok)

ResolveSpec == ResolveInit /\ [][ResolveNext]_vars


--------------------------------------------------------------------------
\* The cancellation registry, called by several tasks on several request ids

RegistryOps == {"cancel_request", "clear_cancel_request", "is_cancelled"}

\* the set an operation leaves, given the set it found under the guard
Applied(op, set, id) ==
    CASE op = "cancel_request" -> set \cup {id}
      [] op = "clear_cancel_request" -> set \ {id}
      [] op = "is_cancelled" -> set

RegistryInit ==
    /\ RagIdle
    /\ SearchIdle
    /\ UnitIdle

\* a task calls one of the three functions
task_call(t, op, id) ==
    /\ tasks[t].at = "idle"
    /\ tasks' = [tasks EXCEPT ![t] = [op |-> op, id |-> id, at |-> "lock",
                                      set |-> {}, result |-> FALSE]]
    /\ UNCHANGED <<cancelled, registry_lock, last, ollama_cache, projectVars>>
    /\ UNCHANGED <<settings, sink, pc, ret, callVars, netVars, ghostVars, manager>>
    /\ UNCHANGED searchVars

\* a lock() that does not wait for the holder of the mutex
task_lock_unguarded(t) ==
    /\ tasks[t].at = "lock"
    /\ registry_lock' = t
    /\ tasks' = [tasks EXCEPT ![t].at = "guard", ![t].set = cancelled]
    /\ UNCHANGED <<cancelled, last, ollama_cache, projectVars>>
    /\ UNCHANGED <<settings, sink, pc, ret, callVars, netVars, ghostVars, manager>>
    /\ UNCHANGED searchVars

\* CANCELLED_REQUESTS.lock() returns the guard, through which the task sees
\* the set
task_lock(t) ==
    /\ tasks[t].at = "lock"
    /\ registry_lock = "none"
    /\ registry_lock' = t
    /\ tasks' = [tasks EXCEPT ![t].at = "guard", ![t].set = cancelled]
    /\ UNCHANGED <<cancelled, last, ollama_cache, projectVars>>
    /\ UNCHANGED <<settings, sink, pc, ret, callVars, netVars, ghostVars, manager>>
    /\ UNCHANGED searchVars

\* the task inserts, removes or tests through the guard, drops it and returns
task_return(t) ==
    /\ tasks[t].at = "guard"
    /\ cancelled' = Applied(tasks[t].op, tasks[t].set, tasks[t].id)
    /\ registry_lock' = IF registry_lock = t THEN "none" ELSE registry_lock
    /\ tasks' = [tasks EXCEPT ![t].at = "idle", ![t].set = {},
                              ![t].result = tasks[t].op = "is_cancelled"
                                                /\ tasks[t].id \in tasks[t].set]
    /\ last' = IF tasks[t].op = "is_cancelled" THEN last
               ELSE [last EXCEPT ![tasks[t].id] = tasks[t].op]
    /\ UNCHANGED <<ollama_cache, projectVars>>
    /\ UNCHANGED <<settings, sink, pc, ret, callVars, netVars, ghostVars, manager>>
    /\ UNCHANGED searchVars

RegistryNext ==
    \/ \E t \in Tasks, op \in RegistryOps, id \in RequestIds : task_call(t, op, id)
    \/ \E t \in Tasks : task_lock(t)
    \/ \E t \in Tasks : task_return(t)

RegistrySpec == RegistryInit /\ [][RegistryNext]_vars

--------------------------------------------------------------------------
\* The stream clients on responses whose text has a two-byte character: the
\* call has sent its request and the provider answers line by line, the
\* network delivering the bytes in reads of any length.

\* Lines a provider sends on such a response.
MaxStreamLines == 2

\* the kind of the token object of a provider
TokenKind(p) ==
    CASE p = "openai" -> "oa_delta"
      [] p = "anthropic" -> "cbd"
      [] p = "gemini" -> "cand"
      [] p = "ollama" -> "om"

\* the terminal signal of a provider
TerminalSymbol(p) ==
    CASE p \in {"openai", "gemini"} -> DoneLiteral
      [] p = "anthropic" -> MessageStop
      [] p = "ollama" -> OllamaDone

\* a token line whose text is one two-byte letter, and the terminal line
StreamLines(p) ==
    LET prefix == IF p = "ollama" THEN <<>> ELSE <<DataPrefix>>
    IN  {prefix \o <<JsonOpen(TokenKind(p)), Utf8Lead, Utf8Cont, JsonClose>>,
         prefix \o <<TerminalSymbol(p)>>}

\* the request of the stream client is on its way
StreamInit ==
    /\ settings = ConfiguredSettings
    /\ cancelled = {}
    /\ sink = <<AiResponseSourcesEvent("r1")>>
    /\ pc = [r \in Requests |-> "connecting"]
    /\ provider \in [Requests -> Providers]
    /\ snapshot = [r \in Requests |-> ConfiguredSettings]
    /\ embedding = [r \in Requests |-> "ok"]
    /\ rag_chunks = [r \in Requests |-> NoChunks]
    /\ buffer = [r \in Requests |-> <<>>]
    /\ emitted_text = [r \in Requests |-> <<>>]
    /\ ret = [r \in Requests |-> "none"]
    /\ sock = [r \in Requests |-> <<>>]
    /\ closed = [r \in Requests |-> FALSE]
    /\ sent = [r \in Requests |-> 0]
    /\ wire = [r \in Requests |-> <<>>]
    /\ cancelAt = [r \in Requests |-> NoMark]
    /\ stale = [r \in Requests |-> FALSE]
    /\ manager = "none"
    /\ SearchIdle
    /\ UnitIdle

\* the provider sends a line
provider_send_text(r) ==
    /\ pc[r] \in {"reading", "lines"}
    /\ ~closed[r]
    /\ sent[r] < MaxStreamLines
    /\ \E line \in StreamLines(provider[r]) :
            sock' = [sock EXCEPT ![r] = @ \o line \o <<NL>>]
    /\ sent' = [sent EXCEPT ![r] = @ + 1]
    /\ UNCHANGED <<settings, cancelled, sink, pc, ret, callVars, closed, wire,
                   ghostVars>>
    /\ UNCHANGED <<manager, searchVars, unitVars>>

StreamNext ==
    \/ \E r \in Requests : connect(r, "ok")
    \/ \E r \in Requests : provider_send_text(r)
    \/ \E r \in Requests : provider_close(r)
    \/ \E r \in Requests : read_chunk(r)
    \/ \E r \in Requests : read_end(r)
    \/ \E r \in Requests : process_line(r)
    \/ \E r \in Requests : check_cancelled(r)

StreamSpec == StreamInit /\ [][StreamNext]_vars

--------------------------------------------------------------------------
\* Two questions at once: the commands run for two request ids against
\* providers and a database that answer, with Anthropic and Ollama configured
\* and Ollama preferred.

\* Lines a provider sends on one response when two questions are asked.
MaxPairLines == 1

PartialSettings ==
    [openai_api_key |-> "none", anthropic_api_key |-> "set",
     gemini_api_key |-> "none", ollama_base_url |-> "set",
     preferred_provider |-> "ollama"]

\* a token line; the response ends when the provider closes the connection
PairLines(p) ==
    LET prefix == IF p = "ollama" THEN <<>> ELSE <<DataPrefix>>
    IN  {prefix \o <<Sym(TokenKind(p), <<"x">>)>>}

PairInit ==
    /\ settings = PartialSettings
    /\ cancelled = {}
    /\ sink = <<>>
    /\ pc = [r \in RequestIds |-> "idle"]
    /\ provider = [r \in RequestIds |-> "none"]
    /\ snapshot = [r \in RequestIds |-> DefaultSettings]
    /\ embedding = [r \in RequestIds |-> "none"]
    /\ rag_chunks = [r \in RequestIds |-> NoChunks]
    /\ buffer = [r \in RequestIds |-> <<>>]
    /\ emitted_text = [r \in RequestIds |-> <<>>]
    /\ ret = [r \in RequestIds |-> "none"]
    /\ sock = [r \in RequestIds |-> <<>>]
    /\ closed = [r \in RequestIds |-> FALSE]
    /\ sent = [r \in RequestIds |-> 0]
    /\ wire = [r \in RequestIds |-> <<>>]
    /\ cancelAt = [r \in RequestIds |-> NoMark]
    /\ stale = [r \in RequestIds |-> FALSE]
    /\ manager = "none"
    /\ SearchIdle
    /\ UnitIdle

\* the provider sends a line
pair_send(r) ==
    /\ pc[r] \in {"reading", "lines"}
    /\ ~closed[r]
    /\ sent[r] < MaxPairLines
    /\ \E line \in PairLines(provider[r]) :
            sock' = [sock EXCEPT ![r] = @ \o line \o <<NL>>]
    /\ sent' = [sent EXCEPT ![r] = @ + 1]
    /\ UNCHANGED <<settings, cancelled, sink, pc, ret, callVars, closed, wire,
                   ghostVars>>
    /\ UNCHANGED <<manager, searchVars, unitVars>>

\* a question names no provider or one that is not configured
PairNext ==
    \/ \E r \in RequestIds : cancel_ai_request(r)
    \/ \E r \in RequestIds, explicit \in {"none", "openai"} :
            ask_question(r, explicit, TRUE)
    \/ \E r \in RequestIds : ask_question_rag(r, TRUE)
    \/ \E r \in RequestIds : generate_embedding(r, "ok")
    \/ \E r \in RequestIds : lock_manager(r, "ok")
    \/ \E r \in RequestIds : retrieve(r, "ok", <<1, 2>>, {})
    \/ \E r \in RequestIds : resolve_sources(r)
    \/ \E r \in RequestIds : stream_chat_response(r)
    \/ \E r \in RequestIds : connect(r, "ok")
    \/ \E r \in RequestIds : pair_send(r)
    \/ \E r \in RequestIds : provider_close(r)
    \/ \E r \in RequestIds : read_chunk(r)
    \/ \E r \in RequestIds : read_end(r)
    \/ \E r \in RequestIds : process_line(r)
    \/ \E r \in RequestIds : check_cancelled(r)

PairSpec == PairInit /\ [][PairNext]_vars

--------------------------------------------------------------------------
\* The project commands (commands.rs), each in the steps it takes under the
\* manager's mutex

Manager == ProjectManager(registry, connections)

ProjectInit ==
    /\ \E stored \in StoredRegistries, openable \in SUBSET UserProjects :
            /\ registry = run(stored, openable).registry
            /\ connections = run(stored, openable).connections
    /\ builds = {}
    /\ RagIdle
    /\ SearchIdle
    /\ ClientsIdle

\* the set_active_project command
set_active_project(project_id) ==
    /\ registry' = ProjectManager_set_active_project(Manager, project_id).v.registry
    /\ UNCHANGED <<connections, builds>>
    /\ UNCHANGED <<ragVars, searchVars, ollama_cache, tasks, registry_lock, last>>

\* the add_project command: the build, and under the guard open_connection
\* and add_project
add_project(id, built, opened) ==
    /\ Len(registry.projects) < MaxProjects
    /\ LET open == open_connection(Manager, id, opened)
           added == ProjectManager_add_project(open.v, Project(id, FALSE))
       IN  IF built /\ open.ok
           THEN registry' = added.registry /\ connections' = added.connections
           ELSE UNCHANGED <<registry, connections>>
    /\ UNCHANGED builds
    /\ UNCHANGED <<ragVars, searchVars, ollama_cache, tasks, registry_lock, last>>

\* rebuild_project, its first block under the guard: the project is found
\* and is not built in, and the build starts
rebuild_project_start(project_id) ==
    /\ project_id \notin builds
    /\ LET found == FindProject(registry.projects, project_id, 1)
       IN  found # 0 /\ ~registry.projects[found].built_in
    /\ builds' = builds \cup {project_id}
    /\ UNCHANGED <<registry, connections>>
    /\ UNCHANGED <<ragVars, searchVars, ollama_cache, tasks, registry_lock, last>>

\* rebuild_project, the build and its second block under the guard:
\* close_connection, then open_connection
rebuild_project(project_id, built, opened) ==
    /\ project_id \in builds
    /\ builds' = builds \ {project_id}
    /\ connections' =
            IF built
            THEN open_connection(close_connection(Manager, project_id),
                                 project_id, opened).v.connections
            ELSE connections
    /\ UNCHANGED registry
    /\ UNCHANGED <<ragVars, searchVars, ollama_cache, tasks, registry_lock, last>>

\* the remove_project command
remove_project(project_id) ==
    /\ LET removed == ProjectManager_remove_project(Manager, project_id).v
       IN  registry' = removed.registry /\ connections' = removed.connections
    /\ UNCHANGED builds
    /\ UNCHANGED <<ragVars, searchVars, ollama_cache, tasks, registry_lock, last>>

ProjectNext ==
    \/ \E project_id \in {Handbook} \cup UserProjects : set_active_project(project_id)
    \/ \E id \in {Handbook} \cup UserProjects, built \in BOOLEAN, opened \in BOOLEAN :
            add_project(id, built, opened)
    \/ \E project_id \in {Handbook} \cup UserProjects : rebuild_project_start(project_id)
    \/ \E project_id \in {Handbook} \cup UserProjects, built \in BOOLEAN, opened \in BOOLEAN :
            rebuild_project(project_id, built, opened)
    \/ \E project_id \in {Handbook} \cup UserProjects : remove_project(project_id)

ProjectSpec == ProjectInit /\ [][ProjectNext]_vars

--------------------------------------------------------------------------
\* The masking of API keys (settings.rs) and save_settings' merge of incoming
\* keys (commands.rs): a key is a sequence of characters.

\* the greatest length of a key that is masked as asterisks
MaskAllUpTo == 8

\* the characters of a key shown at each end of its mask
MaskShown == 4

Ellipsis == <<".", ".", ".">>

mask_key(key) ==
    LET char_count == Len(key)
    IN  IF char_count <= MaskAllUpTo THEN [i \in 1..char_count |-> "*"]
        ELSE SubSeq(key, 1, MaskShown) \o Ellipsis
                \o SubSeq(key, char_count - MaskShown + 1, char_count)

RECURSIVE FindEllipsis(_, _)
\* value.find("..."): the index of the first occurrence from i on, 0 for None
FindEllipsis(value, i) ==
    IF i + 2 > Len(value) THEN 0
    ELSE IF SubSeq(value, i, i + 2) = Ellipsis THEN i
    ELSE FindEllipsis(value, i + 1)

is_masked_key(value) ==
    LET dot_pos == FindEllipsis(value, 1)
        prefix == SubSeq(value, 1, dot_pos - 1)
        suffix == SubSeq(value, dot_pos + 3, Len(value))
    IN  IF value # <<>> /\ \A i \in 1..Len(value) : value[i] = "*" THEN TRUE
        ELSE IF dot_pos # 0 THEN prefix # <<>> /\ suffix # <<>>
        ELSE FALSE

merge_key(incoming, existing) ==
    IF incoming.some /\ is_masked_key(incoming.v) THEN existing
    ELSE IF incoming.some /\ incoming.v = <<>> THEN None
    ELSE incoming

\* Characters of a short key.
MaxShortKey == 3

\* keys of up to MaxShortKey characters, and keys of nine characters
KeyTexts ==
    Strings({".", "k", "*"}, MaxShortKey)
        \cup {a \o <<"k">> \o b : a, b \in [1..MaskShown -> {".", "k"}]}

\* the keys save_settings stores when they come in
StoredKeys == {k \in KeyTexts : merge_key(Some(k), None) = Some(k)}

\* a key is in the store
KeyInit ==
    /\ RagIdle
    /\ UnitIdle
    /\ conn = NoDatabase
    /\ question \in StoredKeys
    /\ query_vec = <<>>
    /\ max_results = 0
    /\ outcome = NoOutcome

\* get_settings shows the key masked and save_settings gets the mask back
call_merge_key ==
    /\ outcome = NoOutcome
    /\ outcome' = Outcome("merge_key",
                          [incoming |-> Some(mask_key(question)),
                           existing |-> Some(question),
                           result |-> merge_key(Some(mask_key(question)), Some(question))])
    /\ UNCHANGED <<conn, question, query_vec, max_results>>
    /\ UNCHANGED <<ragVars, unitVars>>

KeyNext == call_merge_key

KeySpec == KeyInit /\ [][KeyNext]_vars

--------------------------------------------------------------------------
\* The wire protocols of section 4.8, read off a whole received stream

RECURSIVE SplitLines(_)
\* the newline-terminated lines of w, without their newlines
SplitLines(w) ==
    LET i == SelectIdx(w, "nl", 1)
    IN  IF i = 0 THEN <<>>
        ELSE <<SubSeq(w, 1, i - 1)>> \o SplitLines(SubSeq(w, i + 1, Len(w)))

\* a line without the carriage return of a CRLF ending
LineBody(line) == IF line # <<>> /\ Last(line) = CR THEN Front(line) ELSE line

\* the text a well-formed token line carries
LineToken(p, line) ==
    LET b == LineBody(line)
    IN  CASE p = "openai" ->
                IF Len(b) = 2 /\ b[1] = DataPrefix /\ b[2].k = "oa_delta"
                THEN Some(b[2].t) ELSE None
          [] p = "anthropic" ->
                IF Len(b) = 2 /\ b[1] = DataPrefix /\ b[2].k = "cbd"
                THEN Some(b[2].t) ELSE None
          [] p = "gemini" ->
                IF Len(b) = 2 /\ b[1] = DataPrefix /\ b[2].k = "cand"
                THEN Some(b[2].t) ELSE None
          [] p = "ollama" ->
                IF Len(b) = 1 /\ b[1].k \in {"om", "om_done"}
                THEN Some(b[1].t) ELSE None

\* the line is the provider's terminal signal
LineTerminal(p, line) ==
    LET b == LineBody(line)
    IN  CASE p \in {"openai", "gemini"} -> b = <<DataPrefix, DoneLiteral>>
          [] p = "anthropic" -> b = <<DataPrefix, MessageStop>>
          [] p = "ollama" -> Len(b) = 1 /\ b[1].k \in {"om_done", "o_done"}

WellFormedLine(p, line) == LineToken(p, line).some \/ LineTerminal(p, line)

RECURSIVE TokensBeforeEnd(_, _)
\* the texts of the token lines up to the first terminal signal, in wire order
TokensBeforeEnd(p, lines) ==
    IF lines = <<>> THEN <<>>
    ELSE (IF LineToken(p, Head(lines)).some
          THEN <<LineToken(p, Head(lines)).v>> ELSE <<>>)
         \o (IF LineTerminal(p, Head(lines)) THEN <<>>
             ELSE TokensBeforeEnd(p, Tail(lines)))

RECURSIVE Concat(_)
Concat(texts) == IF texts = <<>> THEN <<>> ELSE Head(texts) \o Concat(Tail(texts))

DoneEvents(r) == EventsOfType(r, "done")

ErrorEvents(r) == EventsOfType(r, "error")

ChunkContents(r) ==
    [i \in 1..NumChunks(r) |-> EventsOfType(r, "chunk")[i].content]

\* the first line in the buffer, as process_line will drain it
NextLine(r) == SubSeq(buffer[r], 1, FindNewline(buffer[r]) - 1)

--------------------------------------------------------------------------
\* C1 (as stated): a call during which cancel_ai_request set the flag, after
\* ask_question_rag cleared it and before any done-event, and which emits a
\* done-event, emits one that carries cancelled = true.
C1_CancelAlwaysReported ==
    \A r \in Requests :
        (pc[r] = "returned" /\ cancelAt[r] # NoMark /\ ret[r] \in OkReturns) =>
            \E i \in 1..Len(DoneEvents(r)) : DoneEvents(r)[i].cancelled

\* C1 (amended): once the flag is set after ask_question_rag cleared it, the
\* client waits for no read beyond the one in progress: it is never back at
\* stream.next() with the flag set and a read completed since; and the call
\* that leaves by the check emits exactly the done-event with cancelled = true.
C1_CancelSeenAtNextCheck ==
    \A r \in Requests :
        /\ (pc[r] = "reading" /\ r \in cancelled) => Len(wire[r]) = cancelAt[r].read
        /\ (pc[r] = "returned" /\ ret[r] = "cancelled") =>
                /\ cancelAt[r] # NoMark
                /\ DoneEvents(r) = <<AiResponseDoneEvent(r, TRUE)>>

C1_Witness ==
    \E r \in Requests :
        /\ pc[r] = "returned" /\ ret[r] = "cancelled"
        /\ cancelAt[r].read < Len(wire[r])
        /\ Last(EventsOf(r)) = AiResponseDoneEvent(r, TRUE)

\* C2: in the events of a request nothing follows a done-event: no chunk-event
\* and no second done-event.
C2_DoneIsFinal ==
    \A r \in Requests :
        \A i, j \in 1..Len(EventsOf(r)) :
            (i < j /\ EventsOf(r)[i].type = "done") =>
                EventsOf(r)[j].type \notin {"chunk", "done"}

C2_Witness ==
    \E r \in Requests :
        /\ pc[r] = "returned" /\ ret[r] = "terminal"
        /\ Len(SplitLines(wire[r])) = 2
        /\ LineTerminal(provider[r], SplitLines(wire[r])[1])
        /\ LineToken(provider[r], SplitLines(wire[r])[2]).some
        /\ Last(EventsOf(r)).type = "done"

\* C3 (as stated): when a call during which cancel_ai_request set the flag
\* returns, its request id is not in the cancelled set.
C3_FlagClearedAtReturn ==
    [][\A r \in Requests :
          (pc[r] # "returned" /\ pc'[r] = "returned" /\ cancelAt[r] # NoMark) =>
              r \notin cancelled']_vars

\* C4 (as stated): a call that ends on a configuration or a transport error has
\* emitted exactly one error-event, with its request id and the error message.
C4_OneErrorEvent ==
    \A r \in Requests :
        (pc[r] = "returned" /\ ret[r] \in ConfigErrors \cup TransportErrors) =>
            ErrorEvents(r) = <<error_event(r, ret[r])>>

\* C5: a stream call has emitted nothing before it is connected; one that ends
\* Completed or Cancelled has emitted exactly one done-event, with the
\* cancelled flag of its ending, and no error-event; one that ends Failed has
\* emitted no done-event and one error-event; no call has both.
C5_OneEnding ==
    \A r \in Requests :
        /\ pc[r] \in {"rag", "embedding", "retrieve", "locked", "sources", "stream",
                    "connecting"} =>
                NumChunks(r) = 0 /\ DoneEvents(r) = <<>>
        /\ pc[r] \in {"reading", "lines"} => DoneEvents(r) = <<>> /\ ErrorEvents(r) = <<>>
        /\ (pc[r] = "returned" /\ ret[r] \in OkReturns) =>
                /\ DoneEvents(r) = <<AiResponseDoneEvent(r, ret[r] = "cancelled")>>
                /\ ErrorEvents(r) = <<>>
        /\ (pc[r] = "returned" /\ ret[r] \in {"key_missing"} \cup TransportErrors) =>
                /\ DoneEvents(r) = <<>>
                /\ Len(ErrorEvents(r)) = 1
        /\ DoneEvents(r) = <<>> \/ ErrorEvents(r) = <<>>

C5_Witness ==
    \E r \in Requests :
        /\ pc[r] = "returned" /\ ret[r] = "read_error"
        /\ NumChunks(r) = 2
        /\ Last(EventsOf(r)).type = "error"

\* C6 (as stated): once the flag of a request is set, the client emits at most
\* one further chunk-event for it.
C6_OneChunkAfterCancel ==
    \A r \in Requests :
        cancelAt[r] # NoMark => NumChunks(r) - cancelAt[r].chunks <= 1

\* C7: when the connection has closed and every byte has been read, the client
\* can leave by the end of the stream; and the call that leaves that way has
\* emitted, last, its one done-event with cancelled = false, and no error-event.
C7_CloseEndsStream ==
    \A r \in Requests :
        /\ (pc[r] = "reading" /\ closed[r] /\ sock[r] = <<>>) => ENABLED read_end(r)
        /\ (pc[r] = "returned" /\ ret[r] = "closed") =>
                /\ Last(EventsOf(r)) = AiResponseDoneEvent(r, FALSE)
                /\ Len(DoneEvents(r)) = 1
                /\ ErrorEvents(r) = <<>>

C7_Witness ==
    \E r \in Requests :
        /\ pc[r] = "returned" /\ ret[r] = "closed"
        /\ cancelAt[r] = NoMark
        /\ NumChunks(r) >= 1
        /\ \A i \in 1..Len(SplitLines(wire[r])) :
                ~LineTerminal(provider[r], SplitLines(wire[r])[i])
        /\ DoneEvents(r) = <<AiResponseDoneEvent(r, FALSE)>>

\* C8: draining a line that is not a well-formed line of the provider's
\* protocol emits nothing, leaves emitted_text and the cancelled set alone and
\* stays in the line loop with the rest of the buffer.
C8_MalformedLineSkipped ==
    [][\A r \in Requests :
          (/\ pc[r] = "lines"
           /\ FindNewline(buffer[r]) > 0
           /\ ~WellFormedLine(provider[r], NextLine(r))
           /\ buffer'[r] # buffer[r]) =>
              /\ sink' = sink
              /\ pc'[r] = "lines" /\ ret'[r] = ret[r]
              /\ emitted_text'[r] = emitted_text[r]
              /\ cancelled' = cancelled
              /\ buffer'[r] = SubSeq(buffer[r], FindNewline(buffer[r]) + 1,
                                     Len(buffer[r]))]_vars

C8_Witness ==
    \E r \in Requests :
        /\ pc[r] = "returned" /\ ret[r] = "terminal"
        /\ Len(SplitLines(wire[r])) = 2
        /\ ~WellFormedLine(provider[r], SplitLines(wire[r])[1])
        /\ EventsOfType(r, "error") = <<>>

PrefixChain(texts) ==
    \A i \in 1..(Len(texts) - 1) : IsPrefixOf(texts[i], texts[i + 1])

C11_EmbeddingFailureFallsBack ==
    [][\A r \in Requests :
          /\ (pc[r] = "embedding" /\ pc'[r] # "embedding") =>
                /\ pc'[r] = "retrieve"
                /\ sink' = sink
          /\ (pc[r] = "retrieve" /\ pc'[r] # "retrieve") =>
                \/ pc'[r] = "locked" /\ embedding'[r] = embedding[r] /\ sink' = sink
                \/ pc'[r] = "returned" /\ ret'[r] \in DatabaseErrors
          /\ (pc[r] = "locked" /\ embedding[r] = "err" /\ pc'[r] # "locked") =>
                \/ /\ pc'[r] = "sources"
                   /\ rag_chunks'[r].search = "fts_chunk_search"
                   /\ rag_chunks'[r].limit = RagLimit
                   /\ sink' = sink
                \/ /\ pc'[r] = "returned"
                   /\ ret'[r] \in DatabaseErrors
          /\ (pc[r] = "sources" /\ pc'[r] # "sources") =>
                \/ /\ pc'[r] = "stream"
                   /\ rag_chunks'[r] = rag_chunks[r]
                   /\ sink' = Append(sink, AiResponseSourcesEvent(r))
                \/ /\ pc'[r] = "returned"
                   /\ ret'[r] \in DatabaseErrors]_vars

C11_Witness ==
    \E r \in Requests :
        /\ pc[r] = "stream"
        /\ rag_chunks[r].search = "fts_chunk_search"
        /\ rag_chunks[r].limit = RagLimit
        /\ EventsOf(r) = <<AiResponseSourcesEvent(r)>>

\* C12: a request has at most one sources-event; once the call is at the
\* streaming step or has ended in or after it, it has exactly one and it is the
\* first event of the request, so every chunk-event, the done-event and the
\* error-event come after it; a call that ended before the sources were
\* resolved has no sources-event and no chunk-event.
C12_SourcesFirst ==
    \A r \in Requests :
        LET ev == EventsOf(r)
            sources == EventsOfType(r, "sources")
        IN  /\ Len(sources) <= 1
            /\ \A i \in 1..Len(ev) :
                    ev[i].type \in {"chunk", "done"} => i > 1 /\ ev[1].type = "sources"
            /\ (\/ pc[r] \in {"stream", "connecting", "reading", "lines"}
                \/ /\ pc[r] = "returned"
                   /\ ret[r] \in OkReturns \cup {"key_missing"} \cup TransportErrors) =>
                    Len(sources) = 1 /\ ev[1].type = "sources"
            /\ (/\ pc[r] = "returned"
                /\ ret[r] \in DatabaseErrors
                        \cup {"settings_error", "rag_settings_error", "no_provider"}
                        \cup {NotConfigured(p) : p \in Providers}) =>
                    sources = <<>> /\ NumChunks(r) = 0

C12_Witness ==
    \E r \in Requests :
        /\ pc[r] = "returned" /\ ret[r] = "read_error"
        /\ Len(EventsOf(r)) = 3
        /\ EventsOf(r)[1].type = "sources"
        /\ EventsOf(r)[2].type = "chunk"
        /\ EventsOf(r)[3].type = "error"

--------------------------------------------------------------------------
\* What a call of a search function was given and what it returned

Called(fn) == outcome.fn = fn

Returned == outcome.call.result

\* the list a call returned with Ok
Results == Returned.v

VectorResults == unwrap_or_empty(outcome.call.vector)

FtsResults == outcome.call.fts_results

Ids(results) == {results[i].id : i \in 1..Len(results)}

ScoreOf(results, id) == (CHOOSE c \in Range(results) : c.id = id).score

NonIncreasing(results) ==
    \A i \in 1..(Len(results) - 1) : results[i].score >= results[i + 1].score

Min(x, y) == IF x <= y THEN x ELSE y

\* C13: in the result of hybrid_search a chunk that vector_search and
\* fts_chunk_search both returned has its vector score plus 0.35.
C13_AgreementBonus ==
    (Called("hybrid_search") /\ Returned.ok) =>
        \A c \in Range(Results) :
            (c.id \in Ids(VectorResults) /\ c.id \in Ids(FtsResults)) =>
                c.score = ScoreOf(VectorResults, c.id) + AgreementBonus

C13_Witness ==
    /\ Called("hybrid_search") /\ Returned.ok
    /\ ~table_exists(Connection(conn), "chunks_fts")
    /\ VectorResults = <<ScoredChunk(1, 100)>>
    /\ ScoredChunk(1, FallbackScore) \in Range(FtsResults)
    /\ ScoredChunk(1, 135) \in Range(Results)

\* C14 (as stated): when the two searches share no chunk id and the limit
\* holds them all, the result of hybrid_search is their union with every score
\* as the search returned it, in non-increasing order of score.
C14_DisjointUnionUnmodified ==
    (/\ Called("hybrid_search") /\ Returned.ok
     /\ Ids(VectorResults) \cap Ids(FtsResults) = {}
     /\ Len(VectorResults) + Len(FtsResults) <= max_results) =>
        /\ Range(Results) = Range(VectorResults) \cup Range(FtsResults)
        /\ Len(Results) = Len(VectorResults) + Len(FtsResults)
        /\ NonIncreasing(Results)

\* C14 (amended): under the same conditions the result is the vector hits as
\* returned and the FTS hits with their score raised to 0.35 when it is lower,
\* in non-increasing order of score: the hits of the index (0.5) are
\* unmodified, those of the LIKE path (0.3) score 0.35.
C14_DisjointUnionFloored ==
    (/\ Called("hybrid_search") /\ Returned.ok
     /\ Ids(VectorResults) \cap Ids(FtsResults) = {}
     /\ Len(VectorResults) + Len(FtsResults) <= max_results) =>
        /\ Range(Results) = Range(VectorResults)
                \cup {ScoredChunk(c.id, Max(c.score, AgreementBonus)) : c \in Range(FtsResults)}
        /\ Len(Results) = Len(VectorResults) + Len(FtsResults)
        /\ NonIncreasing(Results)
        /\ table_exists(Connection(conn), "chunks_fts") =>
                Range(Results) = Range(VectorResults) \cup Range(FtsResults)

C14_Witness ==
    /\ Called("hybrid_search") /\ Returned.ok
    /\ ~table_exists(Connection(conn), "chunks_fts")
    /\ Len(VectorResults) = 1 /\ Len(FtsResults) = 1
    /\ Ids(VectorResults) \cap Ids(FtsResults) = {}
    /\ FtsResults[1].score = FallbackScore
    /\ Results = <<ScoredChunk(FtsResults[1].id, AgreementBonus), VectorResults[1]>>

\* C15: in the result of hybrid_search a chunk that only fts_chunk_search
\* returned has the greater of its FTS score and 0.35, and a chunk with a score
\* below 0.35 was returned by vector_search alone.
C15_KeywordFloor ==
    (Called("hybrid_search") /\ Returned.ok) =>
        \A c \in Range(Results) :
            /\ c.id \notin Ids(VectorResults) =>
                    /\ c.id \in Ids(FtsResults)
                    /\ c.score = Max(ScoreOf(FtsResults, c.id), AgreementBonus)
            /\ c.score < AgreementBonus =>
                    c.id \in Ids(VectorResults) /\ c.id \notin Ids(FtsResults)

C15_Witness ==
    /\ Called("hybrid_search") /\ Returned.ok
    /\ \E c \in Range(Results) :
            /\ c.id \notin Ids(VectorResults)
            /\ ScoreOf(FtsResults, c.id) = FallbackScore
            /\ c.score = AgreementBonus
    /\ \E c \in Range(Results) : c.score < AgreementBonus

\* C16: hybrid_search returns at most limit chunks, none for limit 0, in
\* non-increasing order of score and with no chunk id twice.
C16_LimitTruncation ==
    (Called("hybrid_search") /\ Returned.ok) =>
        /\ Len(Results) <= max_results
        /\ NonIncreasing(Results)
        /\ \A i, j \in 1..Len(Results) : Results[i].id = Results[j].id => i = j

C16_Witness ==
    /\ Called("hybrid_search") /\ Returned.ok
    /\ max_results = 1
    /\ Cardinality(Ids(VectorResults) \cup Ids(FtsResults)) = 2
    /\ Len(Results) = 1

\* vector_search returned an error, or read rows and discarded every one
VectorDegraded ==
    \/ ~outcome.call.vector.ok
    \/ /\ outcome.call.vector = Ok(<<>>)
       /\ table_exists(Connection(conn), "chunk_embeddings")
       /\ query_vec # <<>>
       /\ \E id \in ChunkIds : Connection(conn).chunks[id].embedding.some

\* C17 (as stated): when vector_search fails or keeps no candidate,
\* hybrid_search returns the hits of fts_chunk_search, cut to the limit.
C17_ExactlyFtsHits ==
    (Called("hybrid_search") /\ Returned.ok /\ VectorDegraded) =>
        Results = Take(FtsResults, max_results)

\* C17 (amended): an error of vector_search is not an error of hybrid_search,
\* which fails only when fts_chunk_search does; when vector_search fails or
\* keeps no candidate, the result is min(limit, n) of the n hits of
\* fts_chunk_search, each with the greater of its FTS score and 0.35, and not
\* necessarily the first ones or in the order of the hits.
C17_DegradesToText ==
    Called("hybrid_search") =>
        /\ ~Returned.ok => Returned.v = "fts_chunk_search"
        /\ (Returned.ok /\ VectorDegraded) =>
                /\ Range(Results) \subseteq
                        {ScoredChunk(c.id, Max(c.score, AgreementBonus)) : c \in Range(FtsResults)}
                /\ Len(Results) = Min(max_results, Len(FtsResults))
                /\ Cardinality(Ids(Results)) = Len(Results)

C17_Witness ==
    /\ Called("hybrid_search") /\ Returned.ok
    /\ ~outcome.call.vector.ok
    /\ Len(FtsResults) = 2
    /\ Len(Results) = 1
    /\ Results[1].id = FtsResults[2].id

\* C18: vector_search returns Ok with the empty list when chunk_embeddings is
\* absent, when limit is 0 and when the query embedding is empty.
C18_GracefulEmpty ==
    (/\ Called("vector_search")
     /\ \/ ~table_exists(Connection(conn), "chunk_embeddings")
        \/ max_results = 0
        \/ query_vec = <<>>) =>
        Returned.ok /\ Results = <<>>

C18_Witness ==
    /\ Called("vector_search")
    /\ ~table_exists(Connection(conn), "chunk_embeddings")
    /\ max_results > 0
    /\ query_vec = Floats(<<3, 4>>)
    /\ \E id \in ChunkIds : conn.chunks[id] = "runbook_vec"
    /\ Returned.ok /\ Results = <<>>

\* the stored vector of a chunk
Stored(id) == decode_embedding_blob(Connection(conn).chunks[id].embedding.v)

AllZero(vector) == \A i \in 1..Len(vector) : IsZero(vector[i])

\* the chunks vector_search scores and keeps
Eligible ==
    {id \in ChunkIds : /\ Connection(conn).chunks[id].embedding.some
                       /\ ScoreRow(Connection(conn), query_vec, id).some}

EligibleScore(id) == ScoreRow(Connection(conn), query_vec, id).v.score

\* C19: vector_search returns the limit highest-scoring eligible chunks in
\* non-increasing order of score; every score is a number above 0; no chunk
\* whose stored vector has another length than the query or is all zero is
\* returned, and none at all when the query is all zero.
C19_VectorOutput ==
    (Called("vector_search") /\ Returned.ok) =>
        /\ NonIncreasing(Results)
        /\ \A c \in Range(Results) :
                /\ c.score > 0
                /\ Len(Stored(c.id)) = Len(query_vec)
                /\ ~AllZero(Stored(c.id))
                /\ ~AllZero(query_vec)
                /\ \A i \in 1..Len(Stored(c.id)) : ~IsNaN(Stored(c.id)[i])
        /\ (table_exists(Connection(conn), "chunk_embeddings") /\ query_vec # <<>>) =>
                /\ Len(Results) = Min(max_results, Cardinality(Eligible))
                /\ Ids(Results) \subseteq Eligible
                /\ Cardinality(Ids(Results)) = Len(Results)
                /\ \A c \in Range(Results) : c.score = EligibleScore(c.id)
                /\ \A id \in Eligible \ Ids(Results) :
                        \A c \in Range(Results) : EligibleScore(id) <= c.score

C19_Witness ==
    /\ Called("vector_search") /\ Returned.ok
    /\ max_results = 1
    /\ conn.chunks = <<"notes_vec", "runbook_vec">>
    /\ Results = <<ScoredChunk(2, 100)>>
    /\ EligibleScore(1) = 28

\* the chunks whose text has one of the keywords of the query as a word
WordMatches ==
    {id \in ChunkIds : Fts5Match(Connection(conn).chunks[id].content_text,
                                 extract_keywords(Questions[question]))}

\* the chunks whose text has one of the keywords of the query as a substring
SubstringMatches ==
    {id \in ChunkIds : LikeMatch(Connection(conn).chunks[id].content_text,
                                 extract_keywords(Questions[question]))}

--------------------------------------------------------------------------
\* Claims about the text functions

\* s is one or more terms joined by " OR ", each a double quote, a body of one
\* or more characters none of which is a double quote, a double quote, and
\* then at most one star
RECURSIVE IsTermList(_)
IsTermList(s) ==
    /\ Len(s) >= 3
    /\ s[1] = Quote
    /\ LET close == FindChar(s, LAMBDA c : c = Quote, 2)
           after == SubSeq(s, close + 1, Len(s))
           rest == IF after # <<>> /\ after[1] = Star THEN Tail(after) ELSE after
       IN  /\ close >= 3
           /\ \/ rest = <<>>
              \/ /\ IsPrefixOf(OrSeparator, rest)
                 /\ IsTermList(SubSeq(rest, Len(OrSeparator) + 1, Len(rest)))

\* "foo"* OR "barbaz"
Text_example_sanitised ==
    <<"\"", "f", "o", "o", "\"", "*", " ", "O", "R", " ",
      "\"", "b", "a", "r", "b", "a", "z", "\"">>

\* C21: for every input sanitise_fts5_query returns the empty string or terms
\* joined by " OR ", each a non-empty body in double quotes with no double
\* quote inside it, followed by at most one star outside the quotes; on
\* foo* bar"baz it returns "foo"* OR "barbaz".
C21_SanitiserShape ==
    Called("sanitise_fts5_query") =>
        /\ Returned = <<>> \/ IsTermList(Returned)
        /\ question = Text_example => Returned = Text_example_sanitised

C21_Witness ==
    /\ Called("sanitise_fts5_query")
    /\ question = Text_example
    /\ Returned = Text_example_sanitised
    /\ IsTermList(Returned)

\* the term with one trailing star dropped has nothing but double quotes
StripsToNothing(term) ==
    LET body == IF term # <<>> /\ Last(term) = Star THEN Front(term) ELSE term
    IN  \A i \in 1..Len(body) : body[i] = Quote

\* every whitespace-separated term of the text strips to nothing
NoTermLeft(text) ==
    \A term \in Range(split_whitespace(text)) : StripsToNothing(term)

AlphanumericCount(token) == Cardinality({i \in 1..Len(token) : is_alphanumeric(token[i])})

--------------------------------------------------------------------------
\* Claims about the embedding client and the provider selection

\* the embedding requests of the call, by the provider they went to
EmbeddingRequests ==
    MapSeq(SelectSeq(outcome.call.requests, LAMBDA q : q.kind = "embedding"),
           LAMBDA q : q.endpoint)

\* Ollama is reachable as the client knows it: by the check it made within the
\* last 30 seconds, or else by the probe it makes now
OllamaReachable ==
    IF outcome.call.cached.some /\ outcome.call.cached.v.age < 30
    THEN outcome.call.cached.v.available
    ELSE outcome.call.probe

Usable(p) ==
    \/ p = "openai" /\ settings.openai_api_key = "set"
    \/ p = "anthropic" /\ settings.anthropic_api_key = "set"
    \/ p = "gemini" /\ settings.gemini_api_key = "set"
    \/ p = "ollama" /\ settings.ollama_base_url = "set"

\* the place of a provider in the order OpenAI > Anthropic > Gemini > Ollama
Rank(p) ==
    CASE p = "openai" -> 1 [] p = "anthropic" -> 2 [] p = "gemini" -> 3 [] p = "ollama" -> 4

\* C25: with no explicit provider, resolve_provider returns the preferred
\* provider if it is usable; otherwise, whether the preferred provider is
\* unset, unparsable or unusable, the first usable provider in the order
\* OpenAI > Anthropic > Gemini > Ollama; and an error only when no provider is
\* usable.
C25_ProviderSelection ==
    (Called("resolve_provider") /\ outcome.call.provider = "none") =>
        IF settings.preferred_provider \in Providers /\ Usable(settings.preferred_provider)
        THEN Returned = Ok(settings.preferred_provider)
        ELSE IF \E p \in Providers : Usable(p)
        THEN /\ Returned.ok
             /\ Returned.v \in Providers
             /\ Usable(Returned.v)
             /\ \A q \in Providers : Usable(q) => Rank(Returned.v) <= Rank(q)
        ELSE ~Returned.ok

C25_Witness ==
    /\ Called("resolve_provider")
    /\ outcome.call.provider = "none"
    /\ settings.preferred_provider = "openai"
    /\ settings.openai_api_key = "blank"
    /\ settings.anthropic_api_key = "none"
    /\ settings.gemini_api_key = "set"
    /\ settings.ollama_base_url = "set"
    /\ Returned = Ok("gemini")

--------------------------------------------------------------------------
\* Claims about the cancellation registry under concurrency

\* the request ids whose last completed cancel or clear is a cancel
LastCancelled == {id \in RequestIds : last[id] = "cancel_request"}

\* C26: under any interleaving of cancel, clear and is_cancelled calls by
\* several tasks on several request ids, the registry holds exactly the ids
\* whose most recent completed cancel or clear is a cancel, so no operation
\* is lost; is_cancelled(R) returns true iff that operation for R is a cancel;
\* a cancel of an id that is in the set and a clear of one that is not leave
\* the set as it is; and one task at a time is inside the registry.
C26_RegistryLinearizable ==
    [][/\ cancelled' = {id \in RequestIds : last'[id] = "cancel_request"}
       /\ \A t \in Tasks :
            (tasks[t].at = "guard" /\ tasks'[t].at = "idle") =>
                /\ registry_lock = t
                /\ tasks[t].op = "is_cancelled" =>
                        /\ tasks'[t].result = (tasks[t].id \in LastCancelled)
                        /\ cancelled' = cancelled
                /\ (tasks[t].op = "cancel_request" /\ tasks[t].id \in LastCancelled) =>
                        cancelled' = cancelled
                /\ (tasks[t].op = "clear_cancel_request" /\ tasks[t].id \notin LastCancelled) =>
                        cancelled' = cancelled
                /\ tasks[t].op = "cancel_request" => tasks[t].id \in cancelled'
                /\ tasks[t].op = "clear_cancel_request" => tasks[t].id \notin cancelled'
                /\ \A id \in RequestIds \ {tasks[t].id} :
                        id \in cancelled' <=> id \in cancelled]_vars

\* one task has cancelled r1 and cleared it again, the other has cancelled r2
\* and sees it, while the first waits for the lock that the second holds
C26_Witness ==
    /\ cancelled = {"r2"}
    /\ last = [id \in RequestIds |-> IF id = "r1" THEN "clear_cancel_request"
                                     ELSE "cancel_request"]
    /\ registry_lock = "t2"
    /\ tasks["t2"].op = "is_cancelled" /\ tasks["t2"].id = "r2"
    /\ tasks["t2"].at = "guard"
    /\ tasks["t1"].at = "lock"

--------------------------------------------------------------------------
\* Claims about the prompt builder

\* the places of the fragment in the text, in order
Places(text, fragment) ==
    LET at == {i \in 1..Len(text) : text[i] = fragment}
    IN  [j \in 1..Cardinality(at) |->
            CHOOSE i \in at : Cardinality({k \in at : k < i}) = j - 1]

\* the context block of section 4.7 for the chunk, numbered n
ContextBlock(chunk, n) ==
    <<"--- Context ", DecimalDigits[n + 1], " ---">>
        \o (IF chunk.heading_context = <<>> THEN <<>>
            ELSE <<" (">> \o chunk.heading_context \o <<")">>)
        \o <<"\n">> \o chunk.content_text

\* the text from place i has the given text as a prefix
HasAt(text, i, part) ==
    /\ i + Len(part) - 1 <= Len(text)
    /\ SubSeq(text, i, i + Len(part) - 1) = part

\* C27: build_rag_prompt returns exactly two messages, the system message and
\* then the user message; the user message holds one context block per chunk,
\* numbered 1..n in the order of the chunks, and after them the separator and
\* the question, with which it ends; with no chunk it holds the 'No relevant
\* context was found' placeholder in place of the blocks, and with a chunk it
\* does not.
C27_PromptShape ==
    Called("build_rag_prompt") =>
        LET chunks == outcome.call.chunks
            user == Returned[2].content
            blocks == Places(user, "--- Context ")
            ask == Places(user, "\n\n---\n\nQuestion: ")
        IN  /\ Len(Returned) = 2
            /\ Returned[1].role = "system"
            /\ Returned[1].content = SystemContent
            /\ Returned[2].role = "user"
            /\ Len(blocks) = Len(chunks)
            /\ \A j \in 1..Len(blocks) : HasAt(user, blocks[j], ContextBlock(chunks[j], j))
            /\ Len(ask) = 1
            /\ \A j \in 1..Len(blocks) : blocks[j] < ask[1]
            /\ SubSeq(user, ask[1] + 1, Len(user)) = question
            /\ chunks = <<>> <=>
                    \E i \in 1..Len(user) :
                        user[i] = "No relevant context was found in the handbook."
            /\ chunks = <<>> =>
                    user = <<UserOpen, NoContext, QuestionOpen>> \o question

C27_Witness ==
    /\ Called("build_rag_prompt")
    /\ Len(outcome.call.chunks) = 3
    /\ outcome.call.chunks[1] # outcome.call.chunks[2]
    /\ question = Text_example
    /\ Len(Places(Returned[2].content, "--- Context ")) = 3
    /\ HasAt(Returned[2].content, Places(Returned[2].content, "--- Context ")[3],
             ContextBlock(outcome.call.chunks[3], 3))

--------------------------------------------------------------------------
\* Claims about cancellation, the database lock and the source references

\* the flag of r was set while its stream was open
CancelledWhileStreaming(r) == cancelAt[r].at \in {"reading", "lines"}

\* C28 as stated: a request whose cancellation was requested while it was
\* streaming ends with a done-event that carries cancelled = true and a
\* successful return, and with no error-event.
C28_CancelEndsCancelled ==
    \A r \in Requests :
        (pc[r] = "returned" /\ CancelledWhileStreaming(r)) =>
            /\ ret[r] \in OkReturns
            /\ DoneEvents(r) = <<AiResponseDoneEvent(r, TRUE)>>
            /\ ErrorEvents(r) = <<>>

\* C28, amended: a call that observes the cancellation at its check ends with
\* the done-event that carries cancelled = true as its last event, returns
\* Ok and has no error-event; a request whose cancellation was requested while
\* it was streaming ends that way unless its stream ends first: by the
\* terminal signal or the close, with a done-event and no error-event, or by
\* a failed read, with the error-event of that read and no done-event.
C28_CancelIsNotAnError ==
    \A r \in Requests :
        /\ (pc[r] = "returned" /\ ret[r] = "cancelled") =>
                /\ Last(EventsOf(r)) = AiResponseDoneEvent(r, TRUE)
                /\ DoneEvents(r) = <<AiResponseDoneEvent(r, TRUE)>>
                /\ ErrorEvents(r) = <<>>
        /\ (pc[r] = "returned" /\ CancelledWhileStreaming(r)) =>
                \/ /\ ret[r] = "cancelled"
                \/ /\ ret[r] \in {"terminal", "closed"}
                   /\ DoneEvents(r) = <<AiResponseDoneEvent(r, FALSE)>>
                   /\ ErrorEvents(r) = <<>>
                \/ /\ ret[r] = "read_error"
                   /\ DoneEvents(r) = <<>>
                   /\ ErrorEvents(r) = <<error_event(r, "read_error")>>

C28_Witness ==
    \E r \in Requests :
        /\ pc[r] = "returned" /\ ret[r] = "cancelled"
        /\ cancelAt[r].at = "reading"
        /\ cancelAt[r].chunks = 1
        /\ NumChunks(r) = 2
        /\ ErrorEvents(r) = <<>>
        /\ DoneEvents(r) = <<AiResponseDoneEvent(r, TRUE)>>

\* the call waits on the network: for the embedding, for the stream to
\* connect, or for a read of the stream
NetworkPending(r) == pc[r] \in {"embedding", "connecting", "reading"}

FirstUnresolved(r) ==
    LET docs == rag_chunks[r].documents
        failing == {i \in 1..Min(6, Len(docs)) : docs[i] \in rag_chunks[r].absent}
    IN  IF failing = {} THEN 0 ELSE CHOOSE i \in failing : \A j \in failing : i <= j

\* C30: when the document lookup fails for one of the first 6 ranked chunks,
\* ask_question_rag returns the error at that point: no sources-event has
\* been or is emitted, the call never reaches the prompt and the stream, and
\* the one event the step adds is the caller's error-event.
C30_SourceFailureAborts ==
    [][\A r \in Requests :
          (pc[r] = "sources" /\ pc'[r] # "sources" /\ FirstUnresolved(r) > 0) =>
                /\ pc'[r] = "returned"
                /\ ret'[r] = "source_error"
                /\ sink' = Append(sink, error_event(r, "source_error"))
                /\ \A i \in 1..Len(sink') :
                        sink'[i].request_id = r => sink'[i].type = "error"]_vars

\* the call has ended in build_source_references: its one event is the
\* error-event and the mutex is free
C30_Witness ==
    \E r \in Requests :
        /\ pc[r] = "returned"
        /\ ret[r] = "source_error"
        /\ EventsOf(r) = <<error_event(r, "source_error")>>
        /\ manager = "none"

--------------------------------------------------------------------------
\* Claims about the reachability cache

\* the step is the passing of time
IsElapse ==
    /\ outcome' = outcome
    /\ ollama_cache.some
    /\ ollama_cache' = Checked(ollama_cache.v.available, ollama_cache.v.age + ClockStep)

\* the liveness probes of the call
ProbeRequests == SelectSeq(outcome.call.requests, LAMBDA q : q.kind = "probe")

\* C31: a call that asks whether Ollama is reachable sends a liveness probe
\* only when the cache slot is empty or its entry is 30 seconds old or older;
\* otherwise it sends none, leaves the slot as it is and goes by the cached
\* value. After a probe the slot holds that probe's result with age 0, and
\* the age only grows with time, so the next probe is 30 seconds or more
\* after this one.
C31_ProbeOncePerWindow ==
    [][IsElapse \/
        /\ outcome'.fn = "generate_embedding"
        /\ outcome'.call.cached = ollama_cache
        /\ IF outcome'.call.provider # "anthropic"
           THEN ProbeRequests' = <<>> /\ ollama_cache' = ollama_cache
           ELSE IF ollama_cache.some /\ ollama_cache.v.age < 30
           THEN /\ ProbeRequests' = <<>>
                /\ ollama_cache' = ollama_cache
                /\ EmbeddingRequests' = <<"ollama">> <=> ollama_cache.v.available
           ELSE /\ ProbeRequests' = <<Request("ollama", "probe")>>
                /\ ollama_cache' = Checked(outcome'.call.probe, 0)
                /\ EmbeddingRequests' = <<"ollama">> <=> outcome'.call.probe]_vars

\* a call 15 seconds after a probe that found Ollama goes to Ollama without a
\* probe, though a probe would now fail
C31_Witness ==
    /\ Called("generate_embedding")
    /\ outcome.call.provider = "anthropic"
    /\ outcome.call.cached = Checked(TRUE, 15)
    /\ ~outcome.call.probe
    /\ outcome.call.requests = <<Request("ollama", "embedding")>>
    /\ ollama_cache = Checked(TRUE, 15)

--------------------------------------------------------------------------
\* Claims about the terminal signal

\* the client of r acts on a line whose content is the terminal signal
ProcessesTerminal(r) ==
    /\ pc[r] = "lines"
    /\ FindNewline(buffer[r]) > 0
    /\ LineTerminal(provider[r], NextLine(r))
    /\ sink' # sink \/ buffer'[r] # buffer[r] \/ pc'[r] # pc[r]

\* the content an Ollama object with done = true carries, as chunk-events
TerminalContent(r) ==
    IF provider[r] = "ollama" /\ LineToken("ollama", NextLine(r)).some
    THEN <<AiResponseChunkEvent(r, LineToken("ollama", NextLine(r)).v)>>
    ELSE <<>>

\* C32: when a client processes its provider's terminal signal (`data: [DONE]`
\* for OpenAI and Gemini, message_stop for Anthropic, an object with
\* done = true for Ollama) it emits one done-event with cancelled = false,
\* preceded for Ollama by the chunk-event of a content field of that object,
\* removes the request from the cancelled set and returns in the same step,
\* whatever the flag was; a call that returned so has that done-event as its
\* last event, so the lines after the signal produced no chunk-event.
C32_TerminalSignal ==
    /\ [](\A r \in Requests :
            (pc[r] = "returned" /\ ret[r] = "terminal") =>
                /\ Last(EventsOf(r)) = AiResponseDoneEvent(r, FALSE)
                /\ Len(DoneEvents(r)) = 1)
    /\ [][\A r \in Requests :
            ProcessesTerminal(r) =>
                /\ sink' = sink \o TerminalContent(r) \o <<AiResponseDoneEvent(r, FALSE)>>
                /\ r \notin cancelled'
                /\ pc'[r] = "returned" /\ ret'[r] = "terminal"]_vars

\* Ollama sent an object with content x and done = true, then a further token
\* line; the request was cancelled meanwhile: the events are the sources, the
\* chunk x and the done-event with cancelled = false
C32_Witness ==
    \E r \in Requests :
        /\ pc[r] = "returned" /\ ret[r] = "terminal"
        /\ provider[r] = "ollama"
        /\ cancelAt[r] # NoMark
        /\ Len(SplitLines(wire[r])) = 2
        /\ SplitLines(wire[r])[1] = <<OllamaMessage(<<"x">>, TRUE)>>
        /\ LineToken("ollama", SplitLines(wire[r])[2]).some
        /\ ChunkContents(r) = <<<<"x">>>>
        /\ Last(EventsOf(r)) = AiResponseDoneEvent(r, FALSE)
        /\ r \notin cancelled

--------------------------------------------------------------------------
\* Claims about stale flags

\* C33: ask_question_rag removes the request from the cancelled set as its
\* first act, so after it the flag is set only by a cancel_ai_request made
\* since; a call whose flag was set before the question was asked, and not
\* again since that clear, never emits a done-event with cancelled = true.
C33_StaleFlagCleared ==
    /\ [](\A r \in Requests :
            /\ (pc[r] \in InFlight \ {"rag"} /\ cancelAt[r] = NoMark) =>
                    r \notin cancelled
            /\ (stale[r] /\ cancelAt[r] = NoMark) =>
                    /\ ret[r] # "cancelled"
                    /\ \A i \in 1..Len(DoneEvents(r)) : ~DoneEvents(r)[i].cancelled)
    /\ [][\A r \in Requests :
            (pc[r] = "rag" /\ pc'[r] # "rag") => r \notin cancelled']_vars

\* the flag was set before the question was asked and not since: the stream
\* delivered a chunk and ended at the terminal signal with cancelled = false
C33_Witness ==
    \E r \in Requests :
        /\ stale[r] /\ cancelAt[r] = NoMark
        /\ pc[r] = "returned" /\ ret[r] = "terminal"
        /\ NumChunks(r) = 1
        /\ DoneEvents(r) = <<AiResponseDoneEvent(r, FALSE)>>

--------------------------------------------------------------------------
\* Claims about read boundaries

RECURSIVE Replay(_, _, _)
\* the contents of the chunk-events of a client that is given these lines
Replay(p, lines, emitted) ==
    IF lines = <<>> THEN <<>>
    ELSE LET res == stream_line(p, Head(lines), emitted)
         IN  res.chunks \o (IF res.done THEN <<>>
                            ELSE Replay(p, Tail(lines), res.emitted))

\* the chunk contents the bytes of the stream stand for: those of its
\* newline-terminated lines, decoded as one piece
WholeStream(r) == Replay(provider[r], SplitLines(Utf8Lossy(wire[r])), <<>>)

\* C34: with no cancellation, when the stream has ended by terminal signal or
\* by the close of the connection, the chunk-events are those of the
\* newline-terminated lines of the concatenated bytes, however the bytes were
\* split into reads, followed by one done-event with cancelled = false.
C34_ReadBoundaries ==
    \A r \in Requests :
        (pc[r] = "returned" /\ ret[r] \in {"terminal", "closed"}) =>
            /\ ChunkContents(r) = WholeStream(r)
            /\ DoneEvents(r) = <<AiResponseDoneEvent(r, FALSE)>>

--------------------------------------------------------------------------
\* Claims about an explicit provider

\* C35: when the provider named by the request is not configured,
\* ask_question returns that provider's `is selected but no ... is configured`
\* error in its first step, whatever the preferred provider and the other
\* providers are: no provider is chosen in its place, and the call returns
\* with no event, no embedding or liveness request, no use of the project
\* manager and no connection to a provider.
C35_ExplicitNotConfigured ==
    [][\A r \in Requests, p \in Providers :
          (ask_question(r, p, TRUE) /\ ~Usable(p)) =>
              /\ pc'[r] = "returned"
              /\ ret'[r] = NotConfigured(p)
              /\ provider'[r] = "none"
              /\ sink' = sink
              /\ embedding'[r] = "none" /\ ollama_cache' = ollama_cache
              /\ manager' = "none" /\ rag_chunks'[r] = NoChunks
              /\ sock'[r] = <<>> /\ wire'[r] = <<>>]_vars

\* OpenAI was asked for and has no key, while the preferred provider Ollama
\* and Anthropic are configured: the call returned OpenAI's error
C35_Witness ==
    \E r \in Requests :
        /\ pc[r] = "returned"
        /\ ret[r] = NotConfigured("openai")
        /\ settings.openai_api_key = "none"
        /\ settings.preferred_provider = "ollama"
        /\ Usable("ollama") /\ Usable("anthropic")
        /\ provider[r] = "none"
        /\ sink = <<>>

--------------------------------------------------------------------------
\* Claims about two questions at once

\* the step is one of request o: its call moves or its flag changes
StepOf(o) == pc'[o] # pc[o] \/ (o \in cancelled') # (o \in cancelled)

\* C36: while two questions with different request ids run at once, a step
\* of one of them (its cancel_ai_request, the clears of its call, any step of
\* its pipeline) leaves the other id's membership in the cancelled set as it
\* was; and a request for which cancel_ai_request has not been called since
\* its call cleared the flag has no done-event with cancelled = true and does
\* not return by the cancellation check, whatever is done to the other.
C36_RequestsIsolated ==
    /\ [](\A r \in RequestIds :
            cancelAt[r] = NoMark =>
                /\ \A i \in 1..Len(DoneEvents(r)) : ~DoneEvents(r)[i].cancelled
                /\ ret[r] # "cancelled"
                /\ pc[r] \in InFlight \ {"rag"} => r \notin cancelled)
    /\ [][\A r, o \in RequestIds :
            (r # o /\ StepOf(o)) => ((r \in cancelled') <=> (r \in cancelled))]_vars

\* both questions streamed a chunk; r1 was cancelled while streaming and ended
\* with cancelled = true, r2 was not and ended with cancelled = false when
\* its provider closed the connection, after r1's done-event
C36_Witness ==
    /\ pc["r1"] = "returned" /\ ret["r1"] = "cancelled"
    /\ pc["r2"] = "returned" /\ ret["r2"] = "closed"
    /\ cancelAt["r1"].at = "reading" /\ cancelAt["r2"] = NoMark
    /\ NumChunks("r1") = 1 /\ NumChunks("r2") = 1
    /\ DoneEvents("r1") = <<AiResponseDoneEvent("r1", TRUE)>>
    /\ Last(sink) = AiResponseDoneEvent("r2", FALSE)

--------------------------------------------------------------------------
\* Claims about the size of the registry

\* C37: the cancelled set holds only ids of questions in flight, so it is
\* empty whenever no question is in flight: a cancel_ai_request for an id
\* whose question has returned or was never asked does not stay in the set.
C37_RegistryBounded ==
    \A r \in cancelled : r \in Requests /\ pc[r] \in InFlight

--------------------------------------------------------------------------
\* Claims about the failure of the Ollama embedding request

\* C38: for provider Anthropic, once Ollama is judged reachable, by a probe
\* now or by the cached check, every request of the call after the probe goes
\* to Ollama and the one embedding request is Ollama's; its result, success or
\* error, is what generate_embedding returns: no request goes to OpenAI or
\* Gemini, whatever keys are configured.
C38_NoFallThrough ==
    (Called("generate_embedding") /\ outcome.call.provider = "anthropic"
        /\ OllamaReachable) =>
        /\ \A i \in 1..Len(outcome.call.requests) :
                outcome.call.requests[i].endpoint = "ollama"
        /\ Len(EmbeddingRequests) = 1
        /\ Returned.ok \/ Returned.v = "embedding_error"

\* Ollama was found 15 seconds ago and is down now; OpenAI and Gemini keys are
\* set: the one request went to Ollama and its error was returned
C38_Witness ==
    /\ Called("generate_embedding")
    /\ outcome.call.provider = "anthropic"
    /\ outcome.call.cached = Checked(TRUE, 15)
    /\ ~outcome.call.probe
    /\ settings.openai_api_key = "set"
    /\ settings.gemini_api_key = "set"
    /\ outcome.call.requests = <<Request("ollama", "embedding")>>
    /\ ~Returned.ok /\ Returned.v = "embedding_error"

--------------------------------------------------------------------------
\* Claims about the active project

\* C39: from the state run leaves at startup, after any sequence of
\* set_active_project, add_project, remove_project and rebuild_project calls,
\* failed ones among them, the active project id names a registered project
\* whose connection is open, so active_connection returns Ok.
C39_ActiveHasConnection ==
    /\ FindProject(registry.projects, registry.active_project_id, 1) # 0
    /\ active_connection(Manager).ok

--------------------------------------------------------------------------
\* Claims about masked keys

\* C40: for a non-empty stored key k, is_masked_key recognises mask_key(k),
\* and merge_key of that mask onto the stored key gives back the stored key.
C40_MaskRoundTrip ==
    (Called("merge_key") /\ question # <<>>) =>
        /\ is_masked_key(mask_key(question))
        /\ Returned = Some(question)

====
